---- MODULE Spec2Model ----
(***************************************************************************)
(* lualite: the bytecode encoding, the per-function compiler with its      *)
(* temporary allocator, and the virtual machine (call stack, register      *)
(* stack, shared arrays).                                                  *)
(*                                                                         *)
(* An Instruction (a u32) is modelled as its four little-endian bytes      *)
(* <<opcode, destination, first source, second source>>, each 0..255, so   *)
(* that bit-or, shifts and the `as u8` truncations are computed as the     *)
(* code computes them.                                                     *)
(***************************************************************************)
EXTENDS Integers, Sequences, FiniteSets, TLC

VARIABLES
  functions,        \* VirtualMachine.functions : name -> Procedure
  call_stack,       \* VirtualMachine.call_stack : Seq(StackFrame)
  register_stack,   \* VirtualMachine.register_stack : Seq(Value), index 0 is element 1
  heap,             \* the Rc<RefCell<Vec<Value>>> cells: array id -> Seq(Value)
  last,             \* the last host call and what it returned
  host,             \* the embedding program: the calls it makes, the functions it swaps
  build_profile,    \* the build profile of the crate: "debug" or "release"
  temp_manager,     \* a TempManager: the use count of each slot
  temporaries       \* the ids of the Temporary handles of temp_manager that are alive

vars == <<functions, call_stack, register_stack, heap, last, host, build_profile,
          temp_manager, temporaries>>

----------------------------------------------------------------------------
(* Bytes and words *)

\* `let name = value; body`: the value is computed first, once, and bound to
\* the name
Let(value, Body(_)) == IF value = value THEN Body(value) ELSE Body(value)

Min(a, b) == IF a <= b THEN a ELSE b
Max(a, b) == IF a >= b THEN a ELSE b

RECURSIVE BitOrN(_, _, _)
BitOrN(a, b, bits) ==
  IF bits = 0 THEN 0
  ELSE Max(a % 2, b % 2) + 2 * BitOrN(a \div 2, b \div 2, bits - 1)

BitOrByte(a, b) == BitOrN(a, b, 8)

\* Instruction::empty()
empty == <<0, 0, 0, 0>>

\* Instruction::raw_bitor
raw_bitor(w1, w2) == [i \in 1..4 |-> BitOrByte(w1[i], w2[i])]

\* `x as u32` for x: u8, or a small opcode field value (< 2^16)
U32(x) == <<x % 256, (x \div 256) % 256, 0, 0>>

\* `x as u32` for x: i8 (sign extension)
I8AsU32(x) == IF x >= 0 THEN <<x, 0, 0, 0>> ELSE <<x + 256, 255, 255, 255>>

\* `w << bits` on a u32, the bits shifted out at the top are lost
Shl(w, bits) ==
  LET lo == bits % 8
      by == bits \div 8
      \* shift inside the bytes first, with the carry into the next byte
      m  == [i \in 1..4 |->
              ((w[i] * (2 ^ lo)) % 256)
              + (IF i > 1 THEN (w[i - 1] * (2 ^ lo)) \div 256 ELSE 0)]
  IN [i \in 1..4 |-> IF i - by >= 1 THEN m[i - by] ELSE 0]

\* `x as u8` for a usize
AsU8(x) == x % 256

\* `x as i8` for a u8
U8AsI8(x) == IF x >= 128 THEN x - 256 ELSE x

----------------------------------------------------------------------------
(* bytecode/operand.rs *)

DESTINATION_OFFSET == 8
FIRST_SOURCE_OFFSET == 16
SECOND_SOURCE_OFFSET == 24
INSTRUCTION_POINTER_OFFSET == 16

\* operands as the compiler holds them
RawRegister(n) == [k |-> "raw", n |-> n]
Temporary(id) == [k |-> "temp", id |-> id]
Immediate(n) == [k |-> "imm", n |-> n]
ConstantKey(n) == [k |-> "const", n |-> n]

\* An encoded operand or instruction under construction: the word so far and
\* the DeferredTemp records (bit_offset, id) its Temporary operands pushed.
Enc(w) == [word |-> w, deferred |-> <<>>]

\* Instruction | Instruction, operands evaluated left to right
Or(e1, e2) ==
  [word |-> raw_bitor(e1.word, e2.word), deferred |-> e1.deferred \o e2.deferred]

\* AsDestination / AsSource for RawRegister, Immediate, ConstantKey and
\* Temporary at a given bit offset
as_operand(op, offset) ==
  CASE op.k = "raw"   -> Enc(Shl(U32(op.n), offset))
    [] op.k = "const" -> Enc(Shl(U32(op.n), offset))
    [] op.k = "imm"   -> Enc(Shl(I8AsU32(op.n), offset))
    [] op.k = "temp"  -> [word |-> empty,
                          deferred |-> <<[bit_offset |-> offset, id |-> op.id]>>]

as_destination(op) == as_operand(op, DESTINATION_OFFSET)
as_first(op) == as_operand(op, FIRST_SOURCE_OFFSET)
as_second(op) == as_operand(op, SECOND_SOURCE_OFFSET)

\* InstructionPointer::as_both_operands
as_both_operands(ip) == <<0, 0, ip % 256, (ip \div 256) % 256>>

\* InstructionPointer::from_both_operands
from_both_operands(w) == w[3] + 256 * w[4]

\* RawRegister / Global / ConstantKey / FunctionKey ::from_destination, from_first, from_second
from_destination(w) == w[2]
from_first(w) == w[3]
from_second(w) == w[4]

\* `instruction.0 >> OFFSET & MASK` for a field of the opcode byte
OpField(w, offset, mask) == (w[1] \div (2 ^ offset)) % (mask + 1)

----------------------------------------------------------------------------
(* bytecode/opcode *)

SuperCode_Misc == 0
SuperCode_Index == 1
SuperCode_Comparison == 2
SuperCode_Arithmetic == 3

SuperCode(w) == OpField(w, 0, 3)

\* misc::Subcode, as stored (already shifted to bits 2..4)
Misc_Jump == 0
Misc_Move == 4
Misc_Call == 8
Misc_Interrupt == 12

MiscSubcode(w) == OpField(w, 2, 3) * 4

\* misc::jump_subcode::Reason (bits 4..6) and Special (bits 6..8)
Reason_Special == 0
Reason_Always == 16
Reason_IfFalse == 32
Reason_IfTrue == 48
Special_NoOp == 0
Special_Return == 64

Reason(w) == OpField(w, 4, 3) * 16
Special(w) == OpField(w, 6, 3) * 64

\* common::WildSourceType / WildDestinationType
WildSourceType(op) ==
  CASE op.k \in {"raw", "temp"} -> 0
    [] op.k = "imm" -> 2
    [] op.k = "const" -> 3

SourceTypeName(code) ==
  CASE code = 0 -> "Register"
    [] code = 1 -> "Global"
    [] code = 2 -> "Immediate"
    [] code = 3 -> "Constant"

\* misc::call_subcode::ArgCount
ArgCount_OFFSET == 4
ArgCount_MASK == 15

ArgCountFrom(w) == OpField(w, ArgCount_OFFSET, ArgCount_MASK)
ArgCountInto(n) == Shl(U32(n), ArgCount_OFFSET)

\* index::On
On_Destination == 0
On_Source == 4

\* comparison::Subcode and arithmetic::Subcode, as stored (bits 2..5)
Cmp_Eq == 0
Cmp_Ne == 4
Cmp_Lt == 8
Cmp_Gt == 12
Cmp_Le == 16
Cmp_Ge == 20
Math_Add == 0
Math_Sub == 4
Math_Mul == 8
Math_Div == 12
Math_Rem == 16
Math_Pow == 20

BinSubcode(w) == OpField(w, 2, 7) * 4

\* common::WhichSourceIsWild<5>
Wild_First == 0
Wild_Second == 1

----------------------------------------------------------------------------
(* bytecode/mod.rs: the instruction constructors *)

nop == Enc(U32(SuperCode_Misc + Misc_Jump + Reason_Special + Special_NoOp))

ret == Enc(U32(SuperCode_Misc + Misc_Jump + Reason_Special + Special_Return))

jmp(ip) ==
  Or(Enc(U32(SuperCode_Misc + Misc_Jump + Reason_Always)), Enc(as_both_operands(ip)))

jmp_if_true(condition, ip) ==
  Or(Or(Enc(U32(SuperCode_Misc + Misc_Jump + Reason_IfTrue)),
        as_destination(condition)),
     Enc(as_both_operands(ip)))

jmp_if_false(condition, ip) ==
  Or(Or(Enc(U32(SuperCode_Misc + Misc_Jump + Reason_IfFalse)),
        as_destination(condition)),
     Enc(as_both_operands(ip)))

mov(dest, source) ==
  Or(Or(Or(Enc(U32(SuperCode_Misc + Misc_Move)),
           Enc(Shl(U32(WildSourceType(source)), 5))),
        as_destination(dest)),
     as_first(source))

call(arg_count, dest, fn_key, arg_start) ==
  Or(Or(Or(Or(Enc(U32(SuperCode_Misc + Misc_Call)),
              Enc(ArgCountInto(arg_count))),
           as_destination(dest)),
        Enc(Shl(U32(fn_key), FIRST_SOURCE_OFFSET))),
     as_second(arg_start))

index(on, dest, source, idx) ==
  Or(Or(Or(Or(Or(Enc(U32(SuperCode_Index + on)),
                 Enc(Shl(U32(WildSourceType(source)), 4))),
              Enc(Shl(U32(WildSourceType(idx)), 6))),
           as_destination(dest)),
        as_first(source)),
     as_second(idx))

\* cmp_wr / math_wr: the first source is the wild one
BinWr(super, subcode, dest, first, second) ==
  Or(Or(Or(Or(Or(Enc(U32(super + subcode)),
                 Enc(Shl(U32(Wild_First), 5))),
              Enc(Shl(U32(WildSourceType(first)), 6))),
           as_destination(dest)),
        as_first(first)),
     as_second(second))

\* cmp_rw / math_rw: the second source is the wild one
BinRw(super, subcode, dest, first, second) ==
  Or(Or(Or(Or(Or(Enc(U32(super + subcode)),
                 Enc(Shl(U32(Wild_Second), 5))),
              Enc(Shl(U32(WildSourceType(second)), 6))),
           as_destination(dest)),
        as_first(first)),
     as_second(second))

cmp_wr(subcode, dest, first, second) == BinWr(SuperCode_Comparison, subcode, dest, first, second)
cmp_rw(subcode, dest, first, second) == BinRw(SuperCode_Comparison, subcode, dest, first, second)
math_wr(subcode, dest, first, second) == BinWr(SuperCode_Arithmetic, subcode, dest, first, second)
math_rw(subcode, dest, first, second) == BinRw(SuperCode_Arithmetic, subcode, dest, first, second)

----------------------------------------------------------------------------
(* ast.rs: the syntax tree, as records *)

Identifier(name) == [e |-> "Identifier", name |-> name]
Integer(n) == [e |-> "Integer", v |-> n]
Boolean(b) == [e |-> "Boolean", v |-> b]
String(s) == [e |-> "String", v |-> s]
Binary(left, op, right) == [e |-> "Binary", left |-> left, op |-> op, right |-> right]
FunctionCall(name, args) == [e |-> "FunctionCall", name |-> name, args |-> args]
Index(left, idx) == [e |-> "Index", left |-> left, index |-> idx]

SingleStatement(expr) == [s |-> "Single", expr |-> expr]
AssignStatement(ident, expr) == [s |-> "Assign", ident |-> ident, expr |-> expr]
IndexAssignStatement(table, idx, value) ==
  [s |-> "IndexAssign", table |-> table, index |-> idx, value |-> value]
ReturnStatement(expr) == [s |-> "Return", has |-> TRUE, expr |-> expr]
ReturnNone == [s |-> "Return", has |-> FALSE]
WhileStatement(condition, body) == [s |-> "While", condition |-> condition, body |-> body]
IfStatement(condition, body) ==
  [s |-> "If", condition |-> condition, body |-> body, has_else |-> FALSE]
IfElseStatement(condition, body, else_body) ==
  [s |-> "If", condition |-> condition, body |-> body, has_else |-> TRUE,
   else_body |-> else_body]
FunctionDecl(name, params, body) == [name |-> name, params |-> params, body |-> body]

----------------------------------------------------------------------------
(* runtime/value.rs and bytecode/constant_value.rs: values *)

Nil == [t |-> "Nil"]
BooleanValue(b) == [t |-> "Boolean", b |-> b]
IntegerValue(n) == [t |-> "Integer", i |-> n]
FloatValue(x) == [t |-> "Float", f |-> x]     \* x: the float's value, integral floats only
ArrayValue(id) == [t |-> "Array", a |-> id]   \* Rc: a reference to heap[id]

\* From<String> for Value; a string is the sequence of its bytes
ValueFromString(s) ==
  IF Len(s) <= 14
  THEN [t |-> "ShortStr", buf |-> s \o [i \in 1..(14 - Len(s)) |-> 0], len |-> Len(s)]
  ELSE [t |-> "LongStr", s |-> s]

ConstantInteger(n) == [c |-> "Integer", v |-> n]
ConstantFloat(x) == [c |-> "Float", v |-> x]
ConstantBoolean(b) == [c |-> "Boolean", v |-> b]
ConstantString(s) == [c |-> "String", v |-> s]

\* From<ConstantValue> for runtime::Value
ValueFromConstant(constant_value) ==
  CASE constant_value.c = "Integer" -> IntegerValue(constant_value.v)
    [] constant_value.c = "Float" -> FloatValue(constant_value.v)
    [] constant_value.c = "Boolean" -> BooleanValue(constant_value.v)
    [] constant_value.c = "String" -> ValueFromString(constant_value.v)

----------------------------------------------------------------------------
(* compiler/temporary.rs *)

\* Clone for Temporary: the slot's use count goes up
CloneTemp(fc, op) ==
  IF op.k = "temp"
  THEN [fc EXCEPT !.temps_use_count[op.id + 1] = @ + 1]
  ELSE fc

\* Drop for Temporary: the slot's use count goes down
DropTemp(fc, op) ==
  IF op.k = "temp"
  THEN [fc EXCEPT !.temps_use_count[op.id + 1] = @ - 1]
  ELSE fc

\* TempManager::new, with the build profile it is compiled for
NewTempManager(build) == [temps_use_count |-> <<>>, status |-> "ok", build |-> build]

RECURSIVE FirstFree(_, _)
FirstFree(counts, id) ==
  IF id >= Len(counts) THEN id
  ELSE IF counts[id + 1] = 0 THEN id
  ELSE FirstFree(counts, id + 1)

\* an allocator that appends a slot for every temporary
take_temp_append(fc) ==
  [fc |-> [fc EXCEPT !.temps_use_count = Append(@, 1)],
   op |-> Temporary(Len(fc.temps_use_count))]

\* TempManager::take_temp: the handle's id and the manager after it
take_temp(fc) ==
  LET id == FirstFree(fc.temps_use_count, 0) IN
  IF id < Len(fc.temps_use_count)
  THEN [fc |-> [fc EXCEPT !.temps_use_count[id + 1] = @ + 1], op |-> Temporary(id)]
  ELSE [fc |-> [fc EXCEPT !.temps_use_count = Append(@, 1)], op |-> Temporary(id)]

\* The two nested loops of take_temp_range, with start and end as the code
\* keeps them. `end - start + 1` is usize arithmetic: when the inner loop has
\* set start = end + 1 and continues, `end - start` underflows: a panic in a
\* debug build; in a release build it wraps and the sum is 0.
RECURSIVE RangeOuter(_, _, _, _), RangeInner(_, _, _, _, _)
RangeOuter(counts, start, total, build) ==
  IF start < Len(counts)
  THEN IF counts[start + 1] > 0
       THEN RangeOuter(counts, start + 1, total, build)
       ELSE RangeInner(counts, start, start + 1, total, build)
  ELSE [kind |-> "append", start |-> start]

RangeInner(counts, start, end, total, build) ==
  IF end < Len(counts)
  THEN IF end < start
       THEN IF build = "debug" THEN [kind |-> "panic"]
            ELSE IF total = 0 THEN [kind |-> "found", start |-> start, end |-> end]
            ELSE [kind |-> "hang"]   \* counts[end] > 0 again, start = end + 1 again
       ELSE IF end - start + 1 = total
            THEN [kind |-> "found", start |-> start, end |-> end]
            ELSE IF counts[end + 1] > 0
                 THEN RangeInner(counts, end + 1, end, total, build)
                 ELSE RangeInner(counts, start, end + 1, total, build)
  ELSE RangeOuter(counts, start + 1, total, build)

\* TempManager::take_temp_range: the ids of the handles and the manager after it
take_temp_range(fc, total) ==
  Let(RangeOuter(fc.temps_use_count, 0, total, fc.build), LAMBDA r :
  LET counts == fc.temps_use_count
  IN CASE r.kind = "found" ->
            [fc |-> [fc EXCEPT !.temps_use_count =
                       [i \in 1..Len(counts) |->
                          IF r.start <= i - 1 /\ i - 1 <= r.end
                          THEN counts[i] + 1 ELSE counts[i]]],
             ids |-> [j \in 1..(r.end - r.start + 1) |-> r.start + j - 1]]
       [] r.kind = "append" ->
            LET subtotal == Len(counts) - r.start
                remaining_needed == total - subtotal
            IN [fc |-> [fc EXCEPT !.temps_use_count =
                          counts \o [j \in 1..remaining_needed |-> 1]],
                ids |-> [j \in 1..(Len(counts) + remaining_needed - r.start) |->
                           r.start + j - 1]]
       [] OTHER -> [fc |-> [fc EXCEPT !.status = r.kind], ids |-> <<>>])

\* TempManager::count
count(fc) == Len(fc.temps_use_count)

\* TempManager::reconcile_deferred_temps: `temp_registers_start + id as u8` is
\* u8 arithmetic (a panic on overflow in a debug build, wrapping in release)
\* the temporaries of the set js, in order, written into one instruction
RECURSIVE ReconcileWord(_, _, _, _)
ReconcileWord(word, fc, temp_registers_start, js) ==
  IF js = {} THEN word
  ELSE LET j == CHOOSE i \in js : \A other \in js : i <= other
           d == fc.deferred_temps[j]
           temp_register == (temp_registers_start + AsU8(d.id)) % 256
       IN ReconcileWord(raw_bitor(word, Shl(U32(temp_register), d.bit_offset)),
                        fc, temp_registers_start, js \ {j})

reconcile_deferred_temps(fc, temp_registers_start, k) ==
  LET all == k..Len(fc.deferred_temps)
      overflowing == {j \in all :
                        temp_registers_start + AsU8(fc.deferred_temps[j].id) > 255}
      stop == IF fc.build = "debug" /\ overflowing # {}
              THEN CHOOSE j \in overflowing : \A other \in overflowing : j <= other
              ELSE Len(fc.deferred_temps) + 1
  IN IF fc.status # "ok" THEN fc
     ELSE [fc EXCEPT
            !.bytecode = [off \in 1..Len(fc.bytecode) |->
                            ReconcileWord(fc.bytecode[off], fc, temp_registers_start,
                              {j \in all : /\ j < stop
                                           /\ fc.deferred_temps[j].instruction_offset + 1 = off})],
            !.status = IF stop <= Len(fc.deferred_temps) THEN "panic" ELSE @]

----------------------------------------------------------------------------
(* compiler/function.rs: FunctionCompiler.  The compiler state `fc` holds  *)
(* the fields of FunctionCompiler and of its InnerTempManager, the build   *)
(* profile (which decides what integer overflow does), and status: "ok",   *)
(* or how the compilation ended instead ("panic", "hang").  call_sites and *)
(* jump_sites are bookkeeping only: which call expression each Call        *)
(* instruction is for, and where the instructions of each while and if     *)
(* statement were pushed.                                                  *)

\* HashMap::from_iter(parameters.zip(1..)): a later duplicate replaces an earlier one
ParamMap(parameters) ==
  [n \in {parameters[i] : i \in 1..Len(parameters)} |->
     CHOOSE i \in 1..Len(parameters) :
       /\ parameters[i] = n
       /\ \A j \in 1..Len(parameters) : parameters[j] = n => j <= i]

with_parameters(parameters, build) ==
  [bytecode |-> <<nop.word>>,
   next_register |-> 1 + Len(parameters),
   param_count |-> Len(parameters),
   ident_map |-> ParamMap(parameters),
   temps_use_count |-> <<>>,
   deferred_temps |-> <<>>,
   next_instruction_offset |-> 1,
   constants |-> <<>>,
   function_keys |-> <<>>,
   status |-> "ok",
   build |-> build,
   call_sites |-> <<>>,
   jump_sites |-> <<>>]

\* the Procedure that finish builds, once the deferred temporaries are resolved
finish(fc0) ==
  Let(reconcile_deferred_temps(fc0, AsU8(fc0.next_register), 1), LAMBDA fc :
  [bytecode |-> fc.bytecode,
   register_count |-> 1 + Cardinality(DOMAIN fc.ident_map) + count(fc),
   max_args |-> fc.param_count,
   constants |-> fc.constants,
   functions |-> fc.function_keys,
   status |-> fc.status,
   ident_map |-> fc.ident_map,
   call_sites |-> fc.call_sites])

\* an instruction pointer that is the index of the instruction pushed next
next_instruction_pointer_after(fc) == Len(fc.bytecode) % 65536

next_instruction_pointer(fc) == (Len(fc.bytecode) - 1) % 65536

register_for_return == RawRegister(0)

\* register_for: try_into::<u8>().unwrap() panics above 255
register_for(fc, ident) ==
  IF ident \in DOMAIN fc.ident_map
  THEN [fc |-> fc, op |-> RawRegister(fc.ident_map[ident])]
  ELSE IF fc.next_register > 255
       THEN [fc |-> [fc EXCEPT !.status = "panic"], op |-> RawRegister(0)]
       ELSE [fc |-> [fc EXCEPT
                      !.ident_map = [n \in DOMAIN fc.ident_map \cup {ident} |->
                                       IF n = ident THEN fc.next_register
                                       ELSE fc.ident_map[n]],
                      !.next_register = @ + 1],
             op |-> RawRegister(fc.next_register)]

\* iter().position(..): the first index from i on that holds x, 0 for None
Position(seq, x, i) ==
  LET hits == {j \in i..Len(seq) : seq[j] = x} IN
  IF hits = {} THEN 0 ELSE CHOOSE j \in hits : \A k \in hits : j <= k

\* constant_for_float / constant_for_string / constant_for_boolean and the
\* ConstantKey branch of immediate_or_constant_for: intern, `index as u8`
constant_for(fc, value) ==
  LET at == Position([j \in 1..Len(fc.constants) |->
                        fc.constants[j].c = value.c /\ fc.constants[j].v = value.v],
                     TRUE, 1) IN
  IF at > 0
  THEN [fc |-> fc, op |-> ConstantKey(AsU8(at - 1))]
  ELSE [fc |-> [fc EXCEPT !.constants = Append(@, value)],
        op |-> ConstantKey(AsU8(Len(fc.constants)))]

immediate_or_constant_for(fc, integer) ==
  IF -128 <= integer /\ integer <= 127
  THEN [fc |-> fc, op |-> Immediate(integer)]
  ELSE constant_for(fc, ConstantInteger(integer))

function_key_for(fc, function_name) ==
  LET at == Position(fc.function_keys, function_name, 1) IN
  IF at > 0
  THEN [fc |-> fc, key |-> AsU8(at - 1)]
  ELSE [fc |-> [fc EXCEPT !.function_keys = Append(@, function_name)],
        key |-> AsU8(Len(fc.function_keys))]

\* push, with the DeferredTemp records that building the instruction pushed
\* (each at the manager's next_instruction_offset)
push(fc, instruction) ==
  [fc EXCEPT
    !.bytecode = Append(@, instruction.word),
    !.deferred_temps = @ \o
       [j \in 1..Len(instruction.deferred) |->
          [instruction_offset |-> fc.next_instruction_offset,
           bit_offset |-> instruction.deferred[j].bit_offset,
           id |-> instruction.deferred[j].id]],
    !.next_instruction_offset = Len(fc.bytecode) + 1]

IsLiteral(expression) == expression.e \in {"Integer", "Float", "String", "Boolean"}

needs_wildcard(expression) == IsLiteral(expression)

\* a literal as a wild source
LiteralSource(fc, expression) ==
  CASE expression.e = "Integer" -> immediate_or_constant_for(fc, expression.v)
    [] expression.e = "Float" -> constant_for(fc, ConstantFloat(expression.v))
    [] expression.e = "String" -> constant_for(fc, ConstantString(expression.v))
    [] expression.e = "Boolean" -> constant_for(fc, ConstantBoolean(expression.v))

ArithmeticSubcode(op) ==
  CASE op = "Add" -> Math_Add [] op = "Sub" -> Math_Sub [] op = "Mul" -> Math_Mul
    [] op = "Div" -> Math_Div [] op = "Rem" -> Math_Rem [] op = "Pow" -> Math_Pow

ComparisonSubcode(op) ==
  CASE op = "Eq" -> Cmp_Eq [] op = "Ne" -> Cmp_Ne [] op = "Lt" -> Cmp_Lt
    [] op = "Gt" -> Cmp_Gt [] op = "Le" -> Cmp_Le [] op = "Ge" -> Cmp_Ge

IsArithmetic(op) == op \in {"Add", "Sub", "Mul", "Div", "Rem", "Pow"}

\* the handles of a range go out of scope: each slot's use count goes down
\* once for every handle of the range that refers to it
DropTemps(fc, ids) ==
  [fc EXCEPT !.temps_use_count =
     [slot \in 1..Len(@) |->
        @[slot] - Cardinality({j \in 1..Len(ids) : ids[j] + 1 = slot})]]

\* The methods below call one another (`self.compile_...`); every such call
\* goes through Method, which is defined after them and dispatches on the
\* method's name.
RECURSIVE Method(_, _, _)

\* a condition: an identifier's own register, else a temporary
compile_condition(fc, condition) ==
  IF condition.e = "Identifier"
  THEN register_for(fc, condition.name)
  ELSE Let(take_temp(fc), LAMBDA t :
         [fc |-> Method("compile_expression", CloneTemp(t.fc, t.op), <<t.op, condition>>),
          op |-> t.op])

\* the body compiled once: no jump back to the condition
compile_while_statement_once(fc, condition, body) ==
  Let(compile_condition(fc, condition), LAMBDA c :
  Let(DropTemp(push(c.fc, jmp_if_false(c.op, 0)), c.op), LAMBDA fc1 :
  Let(Method("compile_body", fc1, <<body, 1>>), LAMBDA fc2 :
  Let(push(fc2, nop), LAMBDA fc3 :
    LET jump_offset == Len(c.fc.bytecode)
        end_ip == next_instruction_pointer(fc3)
    IN [fc3 EXCEPT !.bytecode[jump_offset + 1] =
                      raw_bitor(@, as_both_operands(end_ip))]))))

compile_while_statement(fc, condition, body) ==
  LET begin_ip == next_instruction_pointer(fc) IN
  Let(compile_condition(fc, condition), LAMBDA c :
  Let(DropTemp(push(c.fc, jmp_if_false(c.op, 0)), c.op), LAMBDA fc1 :
  Let(Method("compile_body", fc1, <<body, 1>>), LAMBDA fc2 :
  Let(push(fc2, jmp(begin_ip)), LAMBDA fc3 :
    LET jump_offset == Len(c.fc.bytecode)
        end_ip == next_instruction_pointer(fc3)
    IN [fc3 EXCEPT !.bytecode[jump_offset + 1] =
                      raw_bitor(@, as_both_operands(end_ip)),
                   !.jump_sites =
                      Append(@, [kind |-> "while", condition |-> Len(fc.bytecode),
                                 test |-> jump_offset, back |-> Len(fc2.bytecode)])]))))

compile_if_statement(fc, condition, body, has_else, else_body) ==
  Let(compile_condition(fc, condition), LAMBDA c :
  Let(DropTemp(push(c.fc, jmp_if_false(c.op, 0)), c.op), LAMBDA fc1 :
  Let(Method("compile_body", fc1, <<body, 1>>), LAMBDA fc2 :
    LET if_false_jump_offset == Len(c.fc.bytecode) IN
    IF has_else
    THEN Let(push(fc2, jmp(0)), LAMBDA fc3 :
         Let(Method("compile_body", fc3, <<else_body, 1>>), LAMBDA fc4 :
           LET jump_over_else_offset == Len(fc2.bytecode)
               else_body_ip == next_instruction_pointer(fc3)
               end_ip == next_instruction_pointer(fc4)
           IN [fc4 EXCEPT
                !.bytecode[if_false_jump_offset + 1] =
                   raw_bitor(@, as_both_operands(else_body_ip)),
                !.bytecode[jump_over_else_offset + 1] =
                   raw_bitor(@, as_both_operands(end_ip)),
                !.jump_sites =
                   Append(@, [kind |-> "if_else", test |-> if_false_jump_offset,
                              over |-> jump_over_else_offset,
                              after |-> Len(fc4.bytecode)])]))
    ELSE LET end_ip == next_instruction_pointer(fc2)
         IN [fc2 EXCEPT !.bytecode[if_false_jump_offset + 1] =
                           raw_bitor(@, as_both_operands(end_ip)),
                        !.jump_sites =
                           Append(@, [kind |-> "if", test |-> if_false_jump_offset,
                                      after |-> Len(fc2.bytecode)])])))

compile_statement(fc, statement) ==
  IF fc.status # "ok" THEN fc
  ELSE CASE statement.s = "Single" ->
              Method("compile_expression", fc, <<RawRegister(0), statement.expr>>)
         [] statement.s = "Assign" ->
              Let(register_for(fc, statement.ident), LAMBDA d :
                Method("compile_expression", d.fc, <<d.op, statement.expr>>))
         [] statement.s = "IndexAssign" ->
              Let(Method("compile_into_register", fc, <<statement.table>>),
                  LAMBDA dest :
              Let(Method("compile_into_wildcard", dest.fc, <<statement.index>>),
                  LAMBDA index_wildcard :
              Let(Method("compile_into_wildcard", index_wildcard.fc, <<statement.value>>),
                  LAMBDA value_wildcard :
              Let(push(value_wildcard.fc,
                       index(On_Destination, dest.op, value_wildcard.op,
                             index_wildcard.op)),
                  LAMBDA fc1 :
                DropTemp(DropTemp(DropTemp(fc1, dest.op), index_wildcard.op),
                         value_wildcard.op)))))
         [] statement.s = "Return" ->
              IF statement.has
              THEN push(Method("compile_expression", fc,
                               <<register_for_return, statement.expr>>), ret)
              ELSE push(fc, ret)
         [] statement.s = "While" ->
              compile_while_statement(fc, statement.condition, statement.body)
         [] statement.s = "If" ->
              compile_if_statement(fc, statement.condition, statement.body,
                                   statement.has_else,
                                   IF statement.has_else THEN statement.else_body ELSE <<>>)

\* `for statement in body`
compile_body(fc, body, i) ==
  IF i > Len(body) THEN fc
  ELSE IF i = Len(body) THEN Method("compile_statement", fc, <<body[i]>>)
  ELSE Let(Method("compile_statement", fc, <<body[i]>>), LAMBDA fc1 :
         Method("compile_body", fc1, <<body, i + 1>>))

\* the instruction of a binary expression, by which source is the wild one
BinaryInstruction(wild, op, dest, first, second) ==
  IF wild = Wild_First
  THEN IF IsArithmetic(op)
       THEN math_wr(ArithmeticSubcode(op), dest, first, second)
       ELSE cmp_wr(ComparisonSubcode(op), dest, first, second)
  ELSE IF IsArithmetic(op)
       THEN math_rw(ArithmeticSubcode(op), dest, first, second)
       ELSE cmp_rw(ComparisonSubcode(op), dest, first, second)

\* compile_expression takes its destination by value: a Temporary passed as
\* dest is dropped when the instruction that uses it has been built
compile_expression(fc, dest, expression) ==
  IF fc.status # "ok" THEN fc
  ELSE CASE expression.e = "Identifier" ->
              Let(register_for(fc, expression.name), LAMBDA src :
                DropTemp(push(src.fc, mov(dest, src.op)), dest))
         [] IsLiteral(expression) ->
              Let(LiteralSource(fc, expression), LAMBDA src :
                DropTemp(push(src.fc, mov(dest, src.op)), dest))
         [] expression.e = "Binary" ->
              IF needs_wildcard(expression.left)
              THEN Let(Method("compile_into_wildcard", fc, <<expression.left>>),
                       LAMBDA first :
                   Let(Method("compile_into_register", first.fc, <<expression.right>>),
                       LAMBDA second :
                   Let(BinaryInstruction(Wild_First, expression.op, dest,
                                         first.op, second.op),
                       LAMBDA instruction :
                     DropTemp(DropTemp(DropTemp(push(second.fc, instruction), dest),
                                       first.op), second.op))))
              ELSE Let(Method("compile_into_register", fc, <<expression.left>>),
                       LAMBDA first :
                   Let(Method("compile_into_wildcard", first.fc, <<expression.right>>),
                       LAMBDA second :
                   Let(BinaryInstruction(Wild_Second, expression.op, dest,
                                         first.op, second.op),
                       LAMBDA instruction :
                     DropTemp(DropTemp(DropTemp(push(second.fc, instruction), dest),
                                       first.op), second.op))))
         [] expression.e = "FunctionCall" ->
              Let(take_temp_range(fc, Len(expression.args)), LAMBDA arg_temps :
              IF arg_temps.fc.status # "ok" THEN arg_temps.fc
              ELSE Let(Method("compile_args", arg_temps.fc,
                              <<arg_temps.ids, expression.args, 1,
                                Min(Len(arg_temps.ids), Len(expression.args))>>),
                       LAMBDA fc1 :
                   Let(function_key_for(fc1, expression.name), LAMBDA fn_key :
                   LET arg_start == IF Len(arg_temps.ids) > 0
                                    THEN Temporary(arg_temps.ids[1])
                                    ELSE RawRegister(0)
                   IN
                   Let(push(fn_key.fc,
                            call(AsU8(Len(expression.args)), dest, fn_key.key,
                                 arg_start)),
                       LAMBDA fc2 :
                   Let(DropTemps(DropTemp(fc2, dest), arg_temps.ids), LAMBDA fc3 :
                     [fc3 EXCEPT !.call_sites =
                        Append(@, [offset |-> Len(fn_key.fc.bytecode),
                                   name |-> expression.name,
                                   dest |-> dest,
                                   args |-> expression.args])])))))
         [] expression.e = "Index" ->
              Let(Method("compile_into_wildcard", fc, <<expression.left>>),
                  LAMBDA source_register :
              Let(Method("compile_into_wildcard", source_register.fc,
                         <<expression.index>>),
                  LAMBDA index_wildcard :
              Let(push(index_wildcard.fc,
                       index(On_Source, dest, source_register.op, index_wildcard.op)),
                  LAMBDA fc1 :
                DropTemp(DropTemp(DropTemp(fc1, dest), source_register.op),
                         index_wildcard.op))))
         [] OTHER -> [fc EXCEPT !.status = "panic"]   \* Unary, a call of a non-name: todo!()

\* each argument into its temporary, a clone of the handle as destination:
\* the arguments first..final of the zipped lists, in order (the first half
\* of them, then the rest)
compile_args(fc, ids, args, first, final) ==
  IF first > final THEN fc
  ELSE IF first = final
  THEN Method("compile_expression", CloneTemp(fc, Temporary(ids[first])),
              <<Temporary(ids[first]), args[first]>>)
  ELSE LET middle == (first + final) \div 2 IN
       Let(Method("compile_args", fc, <<ids, args, first, middle>>), LAMBDA fc1 :
         Method("compile_args", fc1, <<ids, args, middle + 1, final>>))

compile_into_register(fc, expression) ==
  CASE expression.e = "Identifier" -> register_for(fc, expression.name)
    [] IsLiteral(expression) ->
         Let(take_temp(fc), LAMBDA temp :
         Let(LiteralSource(temp.fc, expression), LAMBDA source :
           [fc |-> push(source.fc, mov(temp.op, source.op)), op |-> temp.op]))
    [] OTHER ->
         Let(take_temp(fc), LAMBDA temp :
           [fc |-> Method("compile_expression", CloneTemp(temp.fc, temp.op),
                          <<temp.op, expression>>),
            op |-> temp.op])

compile_into_wildcard(fc, expression) ==
  CASE expression.e = "Identifier" -> register_for(fc, expression.name)
    [] IsLiteral(expression) -> LiteralSource(fc, expression)
    [] OTHER ->
         Let(take_temp(fc), LAMBDA temp :
           [fc |-> Method("compile_expression", CloneTemp(temp.fc, temp.op),
                          <<temp.op, expression>>),
            op |-> temp.op])

Method(name, fc, arguments) ==
  CASE name = "compile_statement" -> compile_statement(fc, arguments[1])
    [] name = "compile_body" -> compile_body(fc, arguments[1], arguments[2])
    [] name = "compile_expression" -> compile_expression(fc, arguments[1], arguments[2])
    [] name = "compile_args" ->
         compile_args(fc, arguments[1], arguments[2], arguments[3], arguments[4])
    [] name = "compile_into_register" -> compile_into_register(fc, arguments[1])
    [] name = "compile_into_wildcard" -> compile_into_wildcard(fc, arguments[1])

(* compiler/mod.rs *)

\* compile_function up to its last line: the FunctionCompiler that finish consumes
compile_statements(function, build) ==
  Let(Method("compile_body", with_parameters(function.params, build),
             <<function.body, 1>>),
      LAMBDA fc :
    IF Len(function.body) > 0 /\ function.body[Len(function.body)].s = "Return"
    THEN fc
    ELSE Method("compile_statement", fc, <<ReturnNone>>))

compile_function(function, build) == finish(compile_statements(function, build))

----------------------------------------------------------------------------
(* runtime/value.rs: operations on values.  A result is [err |-> "", value *)
(* |-> v], or [err |-> e] with e a RuntimeError or "panic".  The integers  *)
(* of the model stay far inside i64.                                       *)

Ok(v) == [err |-> "", value |-> v]
Err(e) == [err |-> e]

Abs(a) == IF a < 0 THEN -a ELSE a

\* i64 `/` and `%`: truncation toward zero
TruncDiv(a, b) ==
  IF (a >= 0) = (b > 0) THEN Abs(a) \div Abs(b) ELSE -(Abs(a) \div Abs(b))
TruncRem(a, b) == a - b * TruncDiv(a, b)

\* derived PartialEq: two arrays are equal when their contents are
RECURSIVE ValueEq(_, _, _)
ValueEq(h, a, b) ==
  IF a.t = "Array" /\ b.t = "Array"
  THEN /\ Len(h[a.a]) = Len(h[b.a])
       /\ \A i \in 1..Len(h[a.a]) : ValueEq(h, h[a.a][i], h[b.a][i])
  ELSE a = b

\* an ordering of two Floats as well
partial_cmp_numbers(a, b) ==
  IF a.t = "Integer" /\ b.t = "Integer"
  THEN (IF a.i < b.i THEN "Less" ELSE IF a.i > b.i THEN "Greater" ELSE "Equal")
  ELSE IF a.t = "Float" /\ b.t = "Float"
  THEN (IF a.f < b.f THEN "Less" ELSE IF a.f > b.f THEN "Greater" ELSE "Equal")
  ELSE "None"

\* PartialOrd: only two Integers are ordered
partial_cmp(a, b) ==
  IF a.t = "Integer" /\ b.t = "Integer"
  THEN (IF a.i < b.i THEN "Less" ELSE IF a.i > b.i THEN "Greater" ELSE "Equal")
  ELSE "None"

Compare(h, subcode, first, second) ==
  CASE subcode = Cmp_Eq -> Ok(BooleanValue(ValueEq(h, first, second)))
    [] subcode = Cmp_Ne -> Ok(BooleanValue(~ValueEq(h, first, second)))
    [] subcode = Cmp_Lt -> Ok(BooleanValue(partial_cmp(first, second) = "Less"))
    [] subcode = Cmp_Gt -> Ok(BooleanValue(partial_cmp(first, second) = "Greater"))
    [] subcode = Cmp_Le -> Ok(BooleanValue(partial_cmp(first, second) \in {"Less", "Equal"}))
    [] subcode = Cmp_Ge -> Ok(BooleanValue(partial_cmp(first, second) \in {"Greater", "Equal"}))
    [] OTHER -> Err("panic")

\* Add, Sub, Mul, Div, Rem for Value; floats are modelled where the result is integral
Arithmetic(subcode, first, second) ==
  IF first.t = "Integer" /\ second.t = "Integer"
  THEN CASE subcode = Math_Add -> Ok(IntegerValue(first.i + second.i))
         [] subcode = Math_Sub -> Ok(IntegerValue(first.i - second.i))
         [] subcode = Math_Mul -> Ok(IntegerValue(first.i * second.i))
         [] subcode = Math_Div -> IF second.i = 0 THEN Err("panic")
                                  ELSE Ok(IntegerValue(TruncDiv(first.i, second.i)))
         [] subcode = Math_Rem -> IF second.i = 0 THEN Err("panic")
                                  ELSE Ok(IntegerValue(TruncRem(first.i, second.i)))
         [] OTHER -> Err("panic")
  ELSE IF first.t = "Float" /\ second.t = "Float"
  THEN CASE subcode = Math_Add -> Ok(FloatValue(first.f + second.f))
         [] subcode = Math_Sub -> Ok(FloatValue(first.f - second.f))
         [] subcode = Math_Mul -> Ok(FloatValue(first.f * second.f))
         [] subcode = Math_Div ->
              IF second.f # 0 /\ TruncRem(first.f, second.f) = 0
              THEN Ok(FloatValue(TruncDiv(first.f, second.f)))
              ELSE Err("NotIntegral")
         [] subcode = Math_Rem -> Ok(Nil)
         [] OTHER -> Err("panic")
  ELSE IF subcode \in {Math_Add, Math_Sub, Math_Mul, Math_Div, Math_Rem}
  THEN Ok(Nil)
  ELSE Err("panic")

\* a get that counts a negative index from the end of the array
get_from_end(h, self, key) ==
  IF self.t = "Array" /\ key.t = "Integer"
  THEN IF key.i < 0
       THEN (IF -key.i <= Len(h[self.a]) THEN Ok(h[self.a][Len(h[self.a]) + key.i + 1])
             ELSE Ok(Nil))
       ELSE IF key.i < Len(h[self.a]) THEN Ok(h[self.a][key.i + 1])
       ELSE Ok(Nil)
  ELSE Err("panic")

\* Value::get
get(h, self, key) ==
  IF self.t = "Array" /\ key.t = "Integer"
  THEN IF key.i < 0 THEN Ok(Nil)
       ELSE IF key.i < Len(h[self.a]) THEN Ok(h[self.a][key.i + 1])
       ELSE Ok(Nil)
  ELSE Err("panic")

\* a set that writes to a private copy of the array: the shared cell is untouched
set_private_copy(h, self, key, value) ==
  IF self.t = "Array" /\ key.t = "Integer"
  THEN [err |-> "", heap |-> h]
  ELSE [err |-> "panic"]

\* Value::set: the heap after it
set(h, self, key, value) ==
  IF self.t = "Array" /\ key.t = "Integer"
  THEN IF key.i < 0 THEN [err |-> "", heap |-> h]
       ELSE IF key.i < Len(h[self.a])
       THEN [err |-> "", heap |-> [h EXCEPT ![self.a][key.i + 1] = value]]
       ELSE IF key.i = Len(h[self.a])
       THEN [err |-> "", heap |-> [h EXCEPT ![self.a] = Append(@, value)]]
       ELSE [err |-> "", heap |-> h]
  ELSE [err |-> "panic"]

\* Vec::resize(n, Value::Nil)
resize(seq, n) ==
  IF n <= Len(seq) THEN SubSeq(seq, 1, n)
  ELSE seq \o [i \in 1..(n - Len(seq)) |-> Nil]

----------------------------------------------------------------------------
(* runtime/virtual_machine.rs.  A machine `vm` holds functions, call_stack, *)
(* register_stack, the heap of array cells, and err: "" while the current   *)
(* host call has not failed, else the RuntimeError it returns or "panic".   *)

StackFrame(procedure, pc, register_start, return_index) ==
  [procedure |-> procedure, pc |-> pc, register_start |-> register_start,
   return_index |-> return_index]

Fail(vm, error) == [vm EXCEPT !.err = error]

Top(vm) == vm.call_stack[Len(vm.call_stack)]

register(vm, r) ==
  IF vm.call_stack = <<>> THEN Err("EmptyCallStack")
  ELSE IF Top(vm).register_start + r < Len(vm.register_stack)
  THEN Ok(vm.register_stack[Top(vm).register_start + r + 1])
  ELSE Err("InvalidRegister")

\* `*self.register_mut(r)? = value`
register_mut(vm, r, value) ==
  IF vm.call_stack = <<>> THEN Fail(vm, "EmptyCallStack")
  ELSE IF Top(vm).register_start + r < Len(vm.register_stack)
  THEN [vm EXCEPT !.register_stack[Top(vm).register_start + r + 1] = value]
  ELSE Fail(vm, "InvalidRegister")

constant(vm, key) ==
  IF vm.call_stack = <<>> THEN Err("EmptyCallStack")
  ELSE IF key < Len(Top(vm).procedure.constants)
  THEN Ok(Top(vm).procedure.constants[key + 1])
  ELSE Err("MissingConstant")

set_pc(vm, pc) ==
  IF vm.call_stack = <<>> THEN Fail(vm, "EmptyCallStack")
  ELSE [vm EXCEPT !.call_stack[Len(vm.call_stack)].pc = pc]

\* the value of a WildSource: Register, Global (todo!()), Immediate, Constant
WildValue(vm, source_type, byte) ==
  CASE source_type = 0 -> register(vm, byte)
    [] source_type = 1 -> Err("panic")
    [] source_type = 2 -> Ok(IntegerValue(U8AsI8(byte)))
    [] source_type = 3 ->
         Let(constant(vm, byte), LAMBDA c :
           IF c.err = "" THEN Ok(ValueFromConstant(c.value)) ELSE c)

\* Special::Return: pop, copy the frame's slot 0 to return_index, truncate.
\* Indexing the register stack out of bounds panics.
ExecuteReturn(vm) ==
  IF vm.call_stack = <<>> THEN Fail(vm, "EmptyCallStack")
  ELSE LET stack_frame == Top(vm)
           rs == vm.register_stack
           popped == [vm EXCEPT !.call_stack = SubSeq(@, 1, Len(@) - 1)]
       IN IF stack_frame.register_start >= Len(rs) \/ stack_frame.return_index >= Len(rs)
          THEN Fail(popped, "panic")
          ELSE [popped EXCEPT !.register_stack =
                  resize([rs EXCEPT ![stack_frame.return_index + 1] =
                                       rs[stack_frame.register_start + 1]],
                         stack_frame.register_start)]

\* conditional jumps that test truthiness (Nil and false are false, all else true)
execute_misc_jump_truthy(vm, instruction) ==
  LET reason == Reason(instruction) IN
  IF reason = Reason_Special
  THEN CASE Special(instruction) = Special_NoOp -> vm
         [] Special(instruction) = Special_Return -> ExecuteReturn(vm)
         [] OTHER -> Fail(vm, "panic")
  ELSE IF reason = Reason_Always
  THEN set_pc(vm, from_both_operands(instruction))
  ELSE Let(IF OpField(instruction, 6, 1) = 0
           THEN register(vm, from_destination(instruction))
           ELSE Err("panic"),
           LAMBDA flag :
         IF flag.err # "" THEN Fail(vm, flag.err)
         ELSE IF (reason = Reason_IfFalse) = (flag.value \in {Nil, BooleanValue(FALSE)})
              THEN set_pc(vm, from_both_operands(instruction))
              ELSE vm)

execute_misc_jump(vm, instruction) ==
  LET reason == Reason(instruction) IN
  IF reason = Reason_Special
  THEN CASE Special(instruction) = Special_NoOp -> vm
         [] Special(instruction) = Special_Return -> ExecuteReturn(vm)
         [] OTHER -> Fail(vm, "panic")
  ELSE IF reason = Reason_Always
  THEN set_pc(vm, from_both_operands(instruction))
  ELSE Let(IF OpField(instruction, 6, 1) = 0
           THEN register(vm, from_destination(instruction))
           ELSE Err("panic"),
           LAMBDA flag :
         IF flag.err # "" THEN Fail(vm, flag.err)
         ELSE IF \/ (reason = Reason_IfFalse /\ flag.value = BooleanValue(FALSE))
                 \/ (reason = Reason_IfTrue /\ flag.value = BooleanValue(TRUE))
              THEN set_pc(vm, from_both_operands(instruction))
              ELSE vm)

execute_misc_move(vm, instruction) ==
  Let(WildValue(vm, OpField(instruction, 5, 3), from_first(instruction)),
      LAMBDA source :
    IF source.err # "" THEN Fail(vm, source.err)
    ELSE IF OpField(instruction, 4, 1) = 0
    THEN register_mut(vm, from_destination(instruction), source.value)
    ELSE Fail(vm, "panic"))

\* the argument loop with `(0..)` for `(1..)`: the first argument lands in the
\* callee's return slot
RECURSIVE CopyArgRegisters_from_zero(_, _, _, _)
CopyArgRegisters_from_zero(vm, frame_base, regs, i) ==
  IF i > Len(regs) THEN vm
  ELSE Let(register(vm, regs[i]), LAMBDA arg_value :
       IF arg_value.err # "" THEN Fail(vm, arg_value.err)
       ELSE IF frame_base + i - 1 >= Len(vm.register_stack) THEN Fail(vm, "InvalidRegister")
       ELSE CopyArgRegisters_from_zero(
              [vm EXCEPT !.register_stack[frame_base + i] = arg_value.value],
              frame_base, regs, i + 1))

\* the argument loop of execute_misc_call: caller registers regs[i..] into
\* the slots frame_base + i.., stopping at the first error
RECURSIVE CopyArgRegisters(_, _, _, _)
CopyArgRegisters(vm, frame_base, regs, i) ==
  IF i > Len(regs) THEN vm
  ELSE Let(register(vm, regs[i]), LAMBDA arg_value :
       IF arg_value.err # "" THEN Fail(vm, arg_value.err)
       ELSE IF frame_base + i >= Len(vm.register_stack) THEN Fail(vm, "InvalidRegister")
       ELSE CopyArgRegisters(
              [vm EXCEPT !.register_stack[frame_base + i + 1] = arg_value.value],
              frame_base, regs, i + 1))

\* a call that skips a callee the table does not bind, instead of failing
execute_misc_call_skip_missing(vm, instruction, build) ==
  LET arg_count == ArgCountFrom(instruction)
      return_register == from_destination(instruction)
      function_key == from_first(instruction)
      arg_start == from_second(instruction)
      regs == [j \in 1..arg_count |-> arg_start + j - 1]
      stack_frame == Top(vm)
      names == stack_frame.procedure.functions
      procedure_name == IF function_key < Len(names) THEN names[function_key + 1] ELSE ""
  IN IF procedure_name \notin DOMAIN vm.functions THEN vm
     ELSE LET procedure == vm.functions[procedure_name]
              frame_base == Len(vm.register_stack)
              vm1 == [vm EXCEPT !.register_stack =
                        resize(@, frame_base + procedure.register_count)]
          IN Let(CopyArgRegisters(vm1, frame_base, regs, 1), LAMBDA vm2 :
               IF vm2.err # "" THEN vm2
               ELSE [vm2 EXCEPT !.call_stack =
                       Append(@, StackFrame(procedure, 0, frame_base,
                                            stack_frame.register_start + return_register))])

\* `arg_start.0 + arg_count.0` is u8 arithmetic; build: what overflow does
execute_misc_call(vm, instruction, build) ==
  LET arg_count == ArgCountFrom(instruction)
      return_register == from_destination(instruction)
      function_key == from_first(instruction)
      arg_start == from_second(instruction)
      arg_end == (arg_start + arg_count) % 256
      regs == [j \in 1..(IF arg_end >= arg_start THEN arg_end - arg_start ELSE 0) |->
                 arg_start + j - 1]
  IN IF arg_start + arg_count > 255 /\ build = "debug" THEN Fail(vm, "panic")
     ELSE IF vm.call_stack = <<>> THEN Fail(vm, "EmptyCallStack")
     ELSE LET stack_frame == Top(vm) IN
          IF function_key >= Len(stack_frame.procedure.functions)
          THEN Fail(vm, "MissingFunction")
          ELSE LET procedure_name == stack_frame.procedure.functions[function_key + 1] IN
               IF procedure_name \notin DOMAIN vm.functions THEN Fail(vm, "MissingFunction")
               ELSE LET procedure == vm.functions[procedure_name]
                        frame_base == Len(vm.register_stack)
                        vm1 == [vm EXCEPT !.register_stack =
                                  resize(@, frame_base + procedure.register_count)]
                    IN Let(CopyArgRegisters(vm1, frame_base, regs, 1), LAMBDA vm2 :
                         IF vm2.err # "" THEN vm2
                         ELSE [vm2 EXCEPT !.call_stack =
                                 Append(@, StackFrame(procedure, 0, frame_base,
                                          stack_frame.register_start + return_register))])

execute_misc(vm, instruction, build) ==
  CASE MiscSubcode(instruction) = Misc_Jump -> execute_misc_jump(vm, instruction)
    [] MiscSubcode(instruction) = Misc_Move -> execute_misc_move(vm, instruction)
    [] MiscSubcode(instruction) = Misc_Call -> execute_misc_call(vm, instruction, build)
    [] OTHER -> Fail(vm, "panic")

execute_index(vm, instruction) ==
  LET destination_register == from_destination(instruction) IN
  Let(WildValue(vm, OpField(instruction, 4, 3), from_first(instruction)),
      LAMBDA source_value :
  Let(WildValue(vm, OpField(instruction, 6, 3), from_second(instruction)),
      LAMBDA index_value :
    IF OpField(instruction, 3, 1) # 0 THEN Fail(vm, "panic")
    ELSE IF source_value.err # "" THEN Fail(vm, source_value.err)
    ELSE IF index_value.err # "" THEN Fail(vm, index_value.err)
    ELSE IF OpField(instruction, 2, 1) * 4 = On_Source
    THEN Let(get(vm.heap, source_value.value, index_value.value), LAMBDA got :
           IF got.err # "" THEN Fail(vm, got.err)
           ELSE register_mut(vm, destination_register, got.value))
    ELSE Let(register(vm, destination_register), LAMBDA destination :
           IF destination.err # "" THEN Fail(vm, destination.err)
           ELSE Let(set(vm.heap, destination.value, index_value.value,
                        source_value.value),
                    LAMBDA after :
                  IF after.err # "" THEN Fail(vm, after.err)
                  ELSE [vm EXCEPT !.heap = after.heap]))))

\* the two sources of a comparison or arithmetic instruction, the wild one
\* read first
Sources(vm, instruction) ==
  LET wild_type == OpField(instruction, 6, 3) IN
  IF OpField(instruction, 5, 1) = Wild_First
  THEN Let(WildValue(vm, wild_type, from_first(instruction)), LAMBDA first :
       Let(register(vm, from_second(instruction)), LAMBDA second :
         IF first.err # "" THEN first
         ELSE IF second.err # "" THEN second
         ELSE [err |-> "", first |-> first.value, second |-> second.value]))
  ELSE Let(WildValue(vm, wild_type, from_second(instruction)), LAMBDA second :
       Let(register(vm, from_first(instruction)), LAMBDA first :
         IF second.err # "" THEN second
         ELSE IF first.err # "" THEN first
         ELSE [err |-> "", first |-> first.value, second |-> second.value]))

execute_comparison(vm, instruction) ==
  Let(Sources(vm, instruction), LAMBDA s :
    IF s.err # "" THEN Fail(vm, s.err)
    ELSE Let(Compare(vm.heap, BinSubcode(instruction), s.first, s.second), LAMBDA r :
           IF r.err # "" THEN Fail(vm, r.err)
           ELSE register_mut(vm, from_destination(instruction), r.value)))

execute_arithmetic(vm, instruction) ==
  Let(Sources(vm, instruction), LAMBDA s :
    IF s.err # "" THEN Fail(vm, s.err)
    ELSE Let(Arithmetic(BinSubcode(instruction), s.first, s.second), LAMBDA r :
           IF r.err # "" THEN Fail(vm, r.err)
           ELSE register_mut(vm, from_destination(instruction), r.value)))

execute(vm, instruction, build) ==
  CASE SuperCode(instruction) = SuperCode_Misc -> execute_misc(vm, instruction, build)
    [] SuperCode(instruction) = SuperCode_Index -> execute_index(vm, instruction)
    [] SuperCode(instruction) = SuperCode_Comparison -> execute_comparison(vm, instruction)
    [] SuperCode(instruction) = SuperCode_Arithmetic -> execute_arithmetic(vm, instruction)

\* the body of both execution loops: pc += 1, fetch, execute
Step(vm, build) ==
  LET n == Len(vm.call_stack)
      pc == vm.call_stack[n].pc + 1
      bytecode == vm.call_stack[n].procedure.bytecode
      vm1 == [vm EXCEPT !.call_stack[n].pc = pc]
  IN IF pc >= Len(bytecode) THEN Fail(vm1, "InvalidPc")
     ELSE execute(vm1, bytecode[pc + 1], build)

\* `for _ in 0..=count`
RECURSIVE execution_loop_finite_inclusive(_, _, _)
execution_loop_finite_inclusive(vm, limit, build) ==
  IF limit = -1 THEN [vm |-> vm, status |-> "Unfinished"]
  ELSE IF vm.call_stack = <<>> THEN [vm |-> vm, status |-> "Finished"]
  ELSE Let(Step(vm, build), LAMBDA s :
         IF s.err # "" THEN [vm |-> s, status |-> "Err"]
         ELSE execution_loop_finite_inclusive(s, limit - 1, build))

\* a loop that yields after one instruction whatever its count
execution_loop_finite_yield(vm, limit, build) ==
  IF limit = 0 THEN [vm |-> vm, status |-> "Unfinished"]
  ELSE IF vm.call_stack = <<>> THEN [vm |-> vm, status |-> "Finished"]
  ELSE Let(Step(vm, build), LAMBDA s :
         IF s.err # "" THEN [vm |-> s, status |-> "Err"]
         ELSE [vm |-> s, status |-> "Unfinished"])

RECURSIVE execution_loop_finite(_, _, _)
execution_loop_finite(vm, limit, build) ==
  IF limit = 0 THEN [vm |-> vm, status |-> "Unfinished"]
  ELSE IF vm.call_stack = <<>> THEN [vm |-> vm, status |-> "Finished"]
  ELSE Let(Step(vm, build), LAMBDA s :
         IF s.err # "" THEN [vm |-> s, status |-> "Err"]
         ELSE execution_loop_finite(s, limit - 1, build))

\* fuel bounds the number of instructions the model follows; a loop that has
\* not ended by then is reported as "Diverges"
RECURSIVE execution_loop_infinite(_, _, _)
execution_loop_infinite(vm, fuel, build) ==
  IF vm.call_stack = <<>> THEN [vm |-> vm, status |-> "Finished"]
  ELSE IF fuel = 0 THEN [vm |-> vm, status |-> "Diverges"]
  ELSE Let(Step(vm, build), LAMBDA s :
         IF s.err # "" THEN [vm |-> s, status |-> "Err"]
         ELSE execution_loop_infinite(s, fuel - 1, build))

\* the argument loop of initialize_with_values
RECURSIVE CopyArgValues(_, _, _, _)
CopyArgValues(vm, frame_base, args, i) ==
  IF i > Len(args) THEN vm
  ELSE IF frame_base + i >= Len(vm.register_stack) THEN Fail(vm, "InvalidRegister")
  ELSE CopyArgValues([vm EXCEPT !.register_stack[frame_base + i + 1] = args[i]],
                     frame_base, args, i + 1)

initialize_with_values(vm, entry_procedure, args) ==
  LET frame_base == Len(vm.register_stack)
      vm1 == [vm EXCEPT !.register_stack =
                resize(@, frame_base + entry_procedure.register_count)]
  IN Let(CopyArgValues(vm1, frame_base, args, 1), LAMBDA vm2 :
       IF vm2.err # "" THEN vm2
       ELSE [vm2 EXCEPT !.call_stack =
               Append(@, StackFrame(entry_procedure, 0, frame_base, 0))])

get_result(vm) == IF Len(vm.register_stack) > 0 THEN vm.register_stack[1] ELSE Nil

\* run: the machine after it and what it returns
run(vm, entry_name, args, fuel, build) ==
  IF entry_name \notin DOMAIN vm.functions
  THEN [vm |-> Fail(vm, "MissingFunction"), status |-> "Err"]
  ELSE Let(initialize_with_values(vm, vm.functions[entry_name], args), LAMBDA vm1 :
         IF vm1.err # "" THEN [vm |-> vm1, status |-> "Err"]
         ELSE execution_loop_infinite(vm1, fuel, build))

\* what a host call returned: Ok(value), Ok(status), Err(error) or a panic
Returned(r, value) ==
  IF r.status = "Err"
  THEN (IF r.vm.err = "panic" THEN [kind |-> "panic"]
        ELSE [kind |-> "Err", error |-> r.vm.err])
  ELSE [kind |-> "Ok", value |-> value]

\* HashMap::insert / HashMap::remove on the function table
insert_function(table, name, procedure) ==
  [n \in DOMAIN table \cup {name} |-> IF n = name THEN procedure ELSE table[n]]

remove_function(table, name) ==
  [n \in DOMAIN table \ {name} |-> table[n]]

\* the value the frame at depth `depth` has in its slot 0 when its Return
\* executes, <<>> if that does not happen within fuel instructions
RECURSIVE EntryReturn(_, _, _, _)
EntryReturn(vm, depth, fuel, build) ==
  IF Len(vm.call_stack) < depth \/ fuel = 0 THEN <<>>
  ELSE LET top == Top(vm)
           at_return == /\ Len(vm.call_stack) = depth
                        /\ top.pc + 1 < Len(top.procedure.bytecode)
                        /\ top.procedure.bytecode[top.pc + 2] = ret.word
       IN IF at_return /\ top.register_start < Len(vm.register_stack)
          THEN <<vm.register_stack[top.register_start + 1]>>
          ELSE Let(Step(vm, build), LAMBDA s :
                 IF s.err # "" THEN <<>>
                 ELSE EntryReturn(s, depth, fuel - 1, build))

----------------------------------------------------------------------------
(* The programs the machine is loaded with, and the embedding programs: a  *)
(* host makes the calls in `calls`, swaps the functions in `inserts` and   *)
(* `removes`, and starts an entry function on a machine that still has     *)
(* frames only if it is `reentrant`.                                       *)

MaxFrames == 2    \* a host starts an entry function while fewer frames than this remain
MaxCount == 1     \* the largest k of execution_loop(Limited(k))
Fuel == 40        \* instructions followed inside one unlimited loop

\* function id(a) return a end
Decl_id ==
  FunctionDecl("id", <<"a">>, <<ReturnStatement(Identifier("a"))>>)

\* function id(a) return a + 1 end          -- a later definition of id
Decl_id_next ==
  FunctionDecl("id", <<"a">>,
    <<ReturnStatement(Binary(Identifier("a"), "Add", Integer(1)))>>)

\* function sub(p, q) return p - q end
Decl_sub ==
  FunctionDecl("sub", <<"p", "q">>,
    <<ReturnStatement(Binary(Identifier("p"), "Sub", Identifier("q")))>>)

\* function h(a, b, c) x = a + (a + b) return sub(c, sub(a, b)) end
Decl_h ==
  FunctionDecl("h", <<"a", "b", "c">>,
    <<AssignStatement("x", Binary(Identifier("a"), "Add",
                                  Binary(Identifier("a"), "Add", Identifier("b")))),
      ReturnStatement(FunctionCall("sub",
        <<Identifier("c"),
          FunctionCall("sub", <<Identifier("a"), Identifier("b")>>)>>))>>)

\* function bare(x) id(x) end
Decl_bare ==
  FunctionDecl("bare", <<"x">>,
    <<SingleStatement(FunctionCall("id", <<Identifier("x")>>))>>)

\* function dup(a, a) return a end
Decl_dup ==
  FunctionDecl("dup", <<"a", "a">>, <<ReturnStatement(Identifier("a"))>>)

\* function pick(c) if c then return 1 end return 2 end
Decl_pick ==
  FunctionDecl("pick", <<"c">>,
    <<IfStatement(Identifier("c"), <<ReturnStatement(Integer(1))>>),
      ReturnStatement(Integer(2))>>)

\* function write(arr, v) arr[0] = v end
Decl_write ==
  FunctionDecl("write", <<"arr", "v">>,
    <<IndexAssignStatement(Identifier("arr"), Integer(0), Identifier("v"))>>)

\* function alias(arr, v) b = arr write(b, v) return arr[0] end
Decl_alias ==
  FunctionDecl("alias", <<"arr", "v">>,
    <<AssignStatement("b", Identifier("arr")),
      SingleStatement(FunctionCall("write", <<Identifier("b"), Identifier("v")>>)),
      ReturnStatement(Index(Identifier("arr"), Integer(0)))>>)

\* function flip(arr) arr[0] = 1 - arr[0] return arr[0] end
Decl_flip ==
  FunctionDecl("flip", <<"arr">>,
    <<IndexAssignStatement(Identifier("arr"), Integer(0),
        Binary(Integer(1), "Sub", Index(Identifier("arr"), Integer(0)))),
      ReturnStatement(Index(Identifier("arr"), Integer(0)))>>)

\* function caller(x) return id(x) end
Decl_caller ==
  FunctionDecl("caller", <<"x">>,
    <<ReturnStatement(FunctionCall("id", <<Identifier("x")>>))>>)

\* function forever(n) x = 0 while x >= 0 do x = x + n end end
Decl_forever ==
  FunctionDecl("forever", <<"n">>,
    <<AssignStatement("x", Integer(0)),
      WhileStatement(Binary(Identifier("x"), "Ge", Integer(0)),
        <<AssignStatement("x", Binary(Identifier("x"), "Add", Identifier("n")))>>)>>)

\* function one() return 1 end
Decl_one == FunctionDecl("one", <<>>, <<ReturnStatement(Integer(1))>>)

\* function lost(a, a) return id(one()) end
Decl_lost ==
  FunctionDecl("lost", <<"a", "a">>,
    <<ReturnStatement(FunctionCall("id", <<FunctionCall("one", <<>>)>>))>>)

Declarations ==
  <<Decl_id, Decl_sub, Decl_h, Decl_bare, Decl_dup, Decl_pick, Decl_write,
    Decl_alias, Decl_flip, Decl_caller, Decl_forever, Decl_one, Decl_lost>>

\* A procedure assembled by the host with the constructors of bytecode/mod.rs:
\*   nop; jmp_if_true R1 -> 3; mov R0, 2; ret; mov R0, 1; ret
Procedure_pick_true ==
  [bytecode |-> <<nop.word,
                  jmp_if_true(RawRegister(1), 3).word,
                  mov(RawRegister(0), Immediate(2)).word,
                  ret.word,
                  mov(RawRegister(0), Immediate(1)).word,
                  ret.word>>,
   register_count |-> 2,
   max_args |-> 1,
   constants |-> <<>>,
   functions |-> <<>>,
   status |-> "ok",
   ident_map |-> [n \in {"c"} |-> 1],
   call_sites |-> <<>>]

\* Two procedures assembled by the host whose Call names a function key that
\* their function list does not have:
\*   nop; call R0 = F0(R1..R1); ret            -- one argument, at R1
\*   nop; call R0 = F0(R250..R264); ret        -- fifteen arguments, from R250
Procedure_bad_key ==
  [bytecode |-> <<nop.word,
                  call(1, RawRegister(0), 0, RawRegister(1)).word,
                  ret.word>>,
   register_count |-> 2,
   max_args |-> 0,
   constants |-> <<>>,
   functions |-> <<>>,
   status |-> "ok",
   ident_map |-> [n \in {} |-> 0],
   call_sites |-> <<>>]

Procedure_far_call ==
  [Procedure_bad_key EXCEPT
     !.bytecode = <<nop.word,
                    call(15, RawRegister(0), 0, RawRegister(250)).word,
                    ret.word>>]

\* compile_declarations, then VirtualMachine::with_functions (a collect into
\* a HashMap): a declaration that compiles is bound to its name, a later one
\* replacing an earlier one of the same name
with_functions(declarations, profile) ==
  Let([i \in 1..Len(declarations) |-> compile_function(declarations[i], profile)],
      LAMBDA compiled :
    LET ok == {i \in 1..Len(declarations) : compiled[i].status = "ok"}
    IN [n \in {declarations[i].name : i \in ok} |->
          compiled[CHOOSE i \in ok :
                     /\ declarations[i].name = n
                     /\ \A j \in ok : declarations[j].name = n => j <= i]])

\* the table the machine is built with: the compiled declarations and the
\* procedures the host assembled
InitialFunctions(profile) ==
  insert_function(
    insert_function(
      insert_function(with_functions(Declarations, profile),
                      "pick_true", Procedure_pick_true),
      "bad_key", Procedure_bad_key),
    "far_call", Procedure_far_call)

\* the one array the host built: [0]
Array1 == ArrayValue(1)
InitialHeap == << <<IntegerValue(0)>> >>

Call(name, args) == [name |-> name, args |-> args]

ConditionValues ==
  {Nil, BooleanValue(TRUE), BooleanValue(FALSE), IntegerValue(0), FloatValue(2),
   ValueFromString(<<104, 105>>), Array1}

HostEntry ==
  [calls |-> {Call("id", <<IntegerValue(1)>>),
              Call("sub", <<IntegerValue(5), IntegerValue(2)>>),
              Call("nowhere", <<>>)},
   inserts |-> {}, removes |-> {}, reentrant |-> TRUE]

HostCalls ==
  [calls |-> {Call("h", <<IntegerValue(1), IntegerValue(2), IntegerValue(3)>>),
              Call("bare", <<IntegerValue(1)>>),
              Call("dup", <<IntegerValue(1)>>)},
   inserts |-> {}, removes |-> {}, reentrant |-> FALSE]

HostJumps ==
  [calls |-> {Call(n, <<v>>) : n \in {"pick", "pick_true"}, v \in ConditionValues},
   inserts |-> {}, removes |-> {}, reentrant |-> FALSE]

HostArrays ==
  [calls |-> {Call("alias", <<Array1, IntegerValue(5)>>),
              Call("flip", <<Array1>>)},
   inserts |-> {}, removes |-> {}, reentrant |-> FALSE]

HostLate ==
  [calls |-> {Call("caller", <<IntegerValue(2)>>)},
   inserts |-> {Decl_id, Decl_id_next}, removes |-> {"id"}, reentrant |-> FALSE]

\* the host of the documentation of execution_loop: it starts forever and
\* runs it in slices
HostForever ==
  [calls |-> {Call("forever", <<IntegerValue(0)>>)},
   inserts |-> {}, removes |-> {}, reentrant |-> FALSE]

\* a host that starts the procedures whose Call has no callee
HostMissing ==
  [calls |-> {Call("bad_key", <<>>), Call("far_call", <<>>), Call("nowhere", <<>>)},
   inserts |-> {}, removes |-> {}, reentrant |-> FALSE]

\* a host that starts a function with a repeated parameter name, whose
\* temporaries lie past its register window
HostWindow ==
  [calls |-> {Call("lost", <<IntegerValue(1), IntegerValue(2)>>)},
   inserts |-> {}, removes |-> {}, reentrant |-> FALSE]

Hosts ==
  {HostEntry, HostCalls, HostJumps, HostArrays, HostLate, HostForever, HostMissing,
   HostWindow}

Builds == {"debug", "release"}

\* InstructionCount
Limited(k) == [limited |-> TRUE, count |-> k]
Unlimited == [limited |-> FALSE]
Limits == {Limited(k) : k \in 0..MaxCount} \cup {Unlimited}

execution_loop(vm, limit, fuel, profile) ==
  IF limit.limited
  THEN execution_loop_finite(vm, limit.count, profile)
  ELSE execution_loop_infinite(vm, fuel, profile)

----------------------------------------------------------------------------
(* The state machine: the host's calls on one VirtualMachine.              *)

VM ==
  [functions |-> functions, call_stack |-> call_stack,
   register_stack |-> register_stack, heap |-> heap, err |-> ""]

Install(vm) ==
  /\ functions' = vm.functions
  /\ call_stack' = vm.call_stack
  /\ register_stack' = vm.register_stack
  /\ heap' = vm.heap

\* a panic ends the process
Alive == last.result.kind # "panic"

Unit == [kind |-> "Ok", value |-> "()"]

Init ==
  /\ host \in Hosts
  /\ build_profile \in Builds
  /\ functions = InitialFunctions(build_profile)
  /\ call_stack = <<>>
  /\ register_stack = <<Nil>>
  /\ heap = InitialHeap
  /\ last = [op |-> "new", result |-> Unit]
  /\ temp_manager = NewTempManager(build_profile)
  /\ temporaries = <<>>

\* vm.run(entry_name, args)
Run(entry_name, args) ==
  /\ Alive
  /\ call_stack = <<>> \/ host.reentrant
  /\ Len(call_stack) < MaxFrames
  /\ \E r \in {run(VM, entry_name, args, Fuel, build_profile)},
        started \in {IF entry_name \in DOMAIN functions
                     THEN initialize_with_values(VM, functions[entry_name], args)
                     ELSE Fail(VM, "MissingFunction")} :
        /\ r.status # "Diverges"
        /\ Install(r.vm)
        /\ last' = [op |-> "run", name |-> entry_name, args |-> args,
                    result |-> Returned(r, get_result(r.vm)),
                    entry |-> IF started.err = ""
                              THEN EntryReturn(started, Len(call_stack) + 1, Fuel, build_profile)
                              ELSE <<>>,
                    below |-> Len(call_stack),
                    again |-> IF last.op = "run" /\ last.name = entry_name
                                 /\ last.args = args
                              THEN <<last.result>> ELSE <<>>]
  /\ UNCHANGED <<host, build_profile, temp_manager, temporaries>>

\* vm.initialize_with_values(vm.get_function(name).unwrap(), args)
InitializeWithValues(name, args) ==
  /\ Alive
  /\ call_stack = <<>> \/ host.reentrant
  /\ Len(call_stack) < MaxFrames
  /\ name \in DOMAIN functions
  /\ \E vm1 \in {initialize_with_values(VM, functions[name], args)} :
        /\ Install(vm1)
        /\ last' = [op |-> "init", name |-> name, args |-> args,
                    result |-> IF vm1.err = "" THEN Unit
                               ELSE [kind |-> "Err", error |-> vm1.err]]
  /\ UNCHANGED <<host, build_profile, temp_manager, temporaries>>

MaxSliced == 12   \* the largest sum of counts kept for consecutive limited loops

\* bookkeeping: the machine before the first of the limited loops that have
\* run one after the other without an error, and the sum of their counts
Slices(limit) ==
  IF /\ limit.limited
     /\ last.op = "loop" /\ last.limit.limited /\ last.result.kind = "Ok"
     /\ last.slices.total + limit.count <= MaxSliced
  THEN [since |-> last.slices.since, total |-> last.slices.total + limit.count]
  ELSE [since |-> VM, total |-> IF limit.limited THEN limit.count ELSE 0]

\* vm.execution_loop(limit)
ExecutionLoop(limit) ==
  /\ Alive
  /\ \E r \in {execution_loop(VM, limit, Fuel, build_profile)} :
        /\ r.status # "Diverges"
        /\ Install(r.vm)
        /\ last' = [op |-> "loop", limit |-> limit, result |-> Returned(r, r.status),
                    slices |-> Slices(limit)]
  /\ UNCHANGED <<host, build_profile, temp_manager, temporaries>>

\* vm.insert_function(name, compile_function(declaration))
InsertFunction(declaration) ==
  /\ Alive
  /\ \E procedure \in {compile_function(declaration, build_profile)} :
        /\ procedure.status = "ok"
        /\ functions' = insert_function(functions, declaration.name, procedure)
  /\ last' = [op |-> "insert", name |-> declaration.name, result |-> Unit]
  /\ UNCHANGED <<call_stack, register_stack, heap, host, build_profile, temp_manager, temporaries>>

\* vm.remove_function(name)
RemoveFunction(name) ==
  /\ Alive
  /\ functions' = remove_function(functions, name)
  /\ last' = [op |-> "remove", name |-> name, result |-> Unit]
  /\ UNCHANGED <<call_stack, register_stack, heap, host, build_profile, temp_manager, temporaries>>

Next ==
  \/ \E c \in host.calls : Run(c.name, c.args)
  \/ \E c \in host.calls : InitializeWithValues(c.name, c.args)
  \/ \E limit \in Limits : ExecutionLoop(limit)
  \/ \E declaration \in host.inserts : InsertFunction(declaration)
  \/ \E name \in host.removes : RemoveFunction(name)

Spec == Init /\ [][Next]_vars

----------------------------------------------------------------------------
(* The example programs. The main() of an example compiles its source,     *)
(* builds a machine with VirtualMachine::with_functions, calls vm.run once *)
(* and prints what it returns. Here run is followed instruction by         *)
(* instruction: last.op is "new" before the call, "running" inside the     *)
(* execution loop and "returned" after it.                                 *)

\* VirtualMachine::with_functions(..): no frame, the one register of
\* Default, the arrays the host built
NewMachine(table, cells) ==
  [functions |-> table, call_stack |-> <<>>, register_stack |-> <<Nil>>,
   heap |-> cells, err |-> ""]

MaxInput == 4     \* gcd is run for every a and b in 1..MaxInput

\* function gcd(a, b)
\*   while a != b do if a > b then a = a - b else b = b - a end end
\*   return a
\* end
Decl_gcd ==
  FunctionDecl("gcd", <<"a", "b">>,
    <<WhileStatement(Binary(Identifier("a"), "Ne", Identifier("b")),
        <<IfElseStatement(Binary(Identifier("a"), "Gt", Identifier("b")),
            <<AssignStatement("a", Binary(Identifier("a"), "Sub", Identifier("b")))>>,
            <<AssignStatement("b", Binary(Identifier("b"), "Sub", Identifier("a")))>>)>>),
      ReturnStatement(Identifier("a"))>>)

MaxLen == 3       \* the searched arrays have at most MaxLen elements
MaxElement == 2   \* with elements in 1..MaxElement
ProgramFuel == 200  \* instructions followed inside one run of an example

\* function binary_search_helper(array, first, last, needle)
\*   if first <= last then
\*     mid = (first + last) / 2
\*     mid_value = array[mid]
\*     if needle < mid_value then
\*       return binary_search_helper(array, first, mid - 1, needle)
\*     elseif needle > mid_value then
\*       return binary_search_helper(array, mid + 1, last, needle)
\*     else return mid end
\*   else return false end
\* end
Decl_binary_search_helper ==
  FunctionDecl("binary_search_helper", <<"array", "first", "last", "needle">>,
    <<IfElseStatement(Binary(Identifier("first"), "Le", Identifier("last")),
        <<AssignStatement("mid",
            Binary(Binary(Identifier("first"), "Add", Identifier("last")),
                   "Div", Integer(2))),
          AssignStatement("mid_value", Index(Identifier("array"), Identifier("mid"))),
          IfElseStatement(Binary(Identifier("needle"), "Lt", Identifier("mid_value")),
            <<ReturnStatement(FunctionCall("binary_search_helper",
                <<Identifier("array"), Identifier("first"),
                  Binary(Identifier("mid"), "Sub", Integer(1)),
                  Identifier("needle")>>))>>,
            <<IfElseStatement(Binary(Identifier("needle"), "Gt", Identifier("mid_value")),
                <<ReturnStatement(FunctionCall("binary_search_helper",
                    <<Identifier("array"),
                      Binary(Identifier("mid"), "Add", Integer(1)),
                      Identifier("last"), Identifier("needle")>>))>>,
                <<ReturnStatement(Identifier("mid"))>>)>>)>>,
        <<ReturnStatement(Boolean(FALSE))>>)>>)

\* function binary_search(array, length, needle)
\*   binary_search_helper(array, 0, length - 1, needle)
\* end
Decl_binary_search_recursive ==
  FunctionDecl("binary_search", <<"array", "length", "needle">>,
    <<SingleStatement(FunctionCall("binary_search_helper",
        <<Identifier("array"), Integer(0),
          Binary(Identifier("length"), "Sub", Integer(1)),
          Identifier("needle")>>))>>)

\* function binary_search(array, length, needle)
\*   first = 0
\*   last = length - 1
\*   while first <= last do
\*     mid = (first + last) / 2
\*     if needle < array[mid] then last = mid - 1
\*     elseif needle > array[mid] then first = mid + 1
\*     else return mid end
\*   end
\*   return false
\* end
Decl_binary_search_iterative ==
  FunctionDecl("binary_search", <<"array", "length", "needle">>,
    <<AssignStatement("first", Integer(0)),
      AssignStatement("last", Binary(Identifier("length"), "Sub", Integer(1))),
      WhileStatement(Binary(Identifier("first"), "Le", Identifier("last")),
        <<AssignStatement("mid",
            Binary(Binary(Identifier("first"), "Add", Identifier("last")),
                   "Div", Integer(2))),
          IfElseStatement(
            Binary(Identifier("needle"), "Lt", Index(Identifier("array"), Identifier("mid"))),
            <<AssignStatement("last", Binary(Identifier("mid"), "Sub", Integer(1)))>>,
            <<IfElseStatement(
                Binary(Identifier("needle"), "Gt",
                       Index(Identifier("array"), Identifier("mid"))),
                <<AssignStatement("first", Binary(Identifier("mid"), "Add", Integer(1)))>>,
                <<ReturnStatement(Identifier("mid"))>>)>>)>>),
      ReturnStatement(Boolean(FALSE))>>)

RecursiveSearch == <<Decl_binary_search_helper, Decl_binary_search_recursive>>
IterativeSearch == <<Decl_binary_search_iterative>>

\* the array of both examples
rust_array == <<1, 3, 4, 6, 8, 9, 10, 11, 14, 15>>

IsSorted(a) == \A i \in 1..Len(a) - 1 : a[i] <= a[i + 1]

\* the searched arrays with the needles looked for in each
SearchInputs ==
  {<<rust_array, needle>> : needle \in 0..16}
  \cup {<<a, needle>> :
          a \in {b \in UNION {[1..n -> 1..MaxElement] : n \in 0..MaxLen} : IsSorted(b)},
          needle \in 0..MaxElement + 1}

\* Value::from_iter(rust_array)
ValueFromIter(a) == [i \in 1..Len(a) |-> IntegerValue(a[i])]

Example(program, declarations, cells, entry) ==
  [program |-> program, declarations |-> declarations, heap |-> cells, call |-> entry]

\* the pair of the example, the pair of the benchmark, and all small pairs
GcdInputs ==
  ((1..MaxInput) \X (1..MaxInput)) \cup {<<250, 135>>, <<25000, 135>>}

GcdExamples ==
  {Example("gcd", <<Decl_gcd>>, <<>>,
           Call("gcd", <<IntegerValue(p[1]), IntegerValue(p[2])>>)) : p \in GcdInputs}

\* vm.run("binary_search", [array.clone(), length.clone(), needle_value])
SearchCall(p) ==
  Call("binary_search", <<Array1, IntegerValue(Len(p[1])), IntegerValue(p[2])>>)

RecursiveSearchExamples ==
  {Example("recursive_binary_search", RecursiveSearch, <<ValueFromIter(p[1])>>,
           SearchCall(p)) : p \in SearchInputs}

\* function apply(a, b) return a <op> b end
Decl_apply(op) ==
  FunctionDecl("apply", <<"a", "b">>,
    <<ReturnStatement(Binary(Identifier("a"), op, Identifier("b")))>>)

\* a second array the host built, equal in content to the first: [0]
Array2 == ArrayValue(2)

\* the values a host passes as operands: every variant, Integers of both
\* signs and zero, a Float equal in number to an Integer
Operands ==
  {Nil, BooleanValue(TRUE), IntegerValue(-7), IntegerValue(0), IntegerValue(2),
   FloatValue(2), FloatValue(-2), ValueFromString(<<104, 105>>), Array1, Array2}

ArithmeticOperators == {"Add", "Sub", "Mul", "Div", "Rem"}
ComparisonOperators == {"Eq", "Ne", "Lt", "Gt", "Le", "Ge"}

BinaryExamples ==
  {Example(op, <<Decl_apply(op)>>, <<InitialHeap[1], InitialHeap[1]>>,
           Call("apply", <<first, second>>)) :
     op \in ArithmeticOperators \cup ComparisonOperators,
     first \in Operands, second \in Operands}

\* function read(arr, i) return arr[i] end
Decl_read ==
  FunctionDecl("read", <<"arr", "i">>,
    <<ReturnStatement(Index(Identifier("arr"), Identifier("i")))>>)

\* function store(arr, i, v) arr[i] = v end
Decl_store ==
  FunctionDecl("store", <<"arr", "i", "v">>,
    <<IndexAssignStatement(Identifier("arr"), Identifier("i"), Identifier("v"))>>)

\* the arrays [], [10], [10, 11], .. of at most MaxLen elements, read and
\* written at every index from -2 to two past the end
IndexExamples ==
  UNION {{Example("read", <<Decl_read>>, <<[k \in 1..n |-> IntegerValue(9 + k)]>>,
                  Call("read", <<Array1, IntegerValue(i)>>)),
          Example("store", <<Decl_store>>, <<[k \in 1..n |-> IntegerValue(9 + k)]>>,
                  Call("store", <<Array1, IntegerValue(i), BooleanValue(TRUE)>>))} :
           n \in 0..MaxLen, i \in -2..MaxLen + 2}

MaxConstants == 257  \* the literals of the largest program: one more than a u8 counts

\* an example with the literals of its entry function, in the order of the
\* instructions that hold them
LiteralExample(program, declarations, entry, literals) ==
  [program |-> program, declarations |-> declarations, heap |-> <<>>,
   call |-> entry, literals |-> literals]

\* function literal(a) return n end
\* function literal(a) return a + n end
\* function literal(a) return n + a end
Decl_literal(shape, n) ==
  FunctionDecl("literal", <<"a">>,
    <<ReturnStatement(
        CASE shape = "return" -> Integer(n)
          [] shape = "right" -> Binary(Identifier("a"), "Add", Integer(n))
          [] shape = "left" -> Binary(Integer(n), "Add", Identifier("a")))>>)

\* the sum (a + c_lo) + .. + (a + c_hi) with c_i = 1000 + i, parenthesised in
\* halves: ((a + c_1) + (a + c_2)) + ((a + c_3) + (a + c_4)) ..
RECURSIVE Sum(_, _)
Sum(lo, hi) ==
  IF lo = hi THEN Binary(Identifier("a"), "Add", Integer(1000 + lo))
  ELSE Binary(Sum(lo, (lo + hi) \div 2), "Add", Sum((lo + hi) \div 2 + 1, hi))

\* function total(a) return <Sum(1, n)> end
Decl_total(n) ==
  FunctionDecl("total", <<"a">>, <<ReturnStatement(Sum(1, n))>>)

\* function mixed(a) if a == "hi" then return true end return id(a) end
Decl_mixed ==
  FunctionDecl("mixed", <<"a">>,
    <<IfStatement(Binary(Identifier("a"), "Eq", String(<<104, 105>>)),
        <<ReturnStatement(Boolean(TRUE))>>),
      ReturnStatement(FunctionCall("id", <<Identifier("a")>>))>>)

\* the integer literals on both sides of the two ends of the i8 range
BoundaryLiterals == {-129, -128, -1, 0, 127, 128}

LiteralExamples ==
  {LiteralExample(shape, <<Decl_literal(shape, n)>>,
                  Call("literal", <<IntegerValue(0)>>), <<Integer(n)>>) :
     shape \in {"return", "right", "left"}, n \in BoundaryLiterals}
  \cup {LiteralExample("total", <<Decl_total(MaxConstants)>>,
                        Call("total", <<IntegerValue(0)>>),
                        [i \in 1..MaxConstants |-> Integer(1000 + i)]),
        LiteralExample("mixed", <<Decl_id, Decl_mixed>>,
                       Call("mixed", <<IntegerValue(1)>>),
                       <<String(<<104, 105>>), Boolean(TRUE)>>)}

\* an example's machine before main() calls run
InitPrograms(examples) ==
  /\ host \in examples
  /\ build_profile \in Builds
  /\ functions = with_functions(host.declarations, build_profile)
  /\ call_stack = <<>>
  /\ register_stack = <<Nil>>
  /\ heap = host.heap
  /\ last = [op |-> "new", result |-> Unit]
  /\ temp_manager = NewTempManager(build_profile)
  /\ temporaries = <<>>

\* run: get_function(entry_name).ok_or(MissingFunction)?, then
\* initialize_with_values(..)?
RunBegin ==
  /\ last.op = "new"
  /\ \E vm1 \in {IF host.call.name \in DOMAIN functions
                  THEN initialize_with_values(VM, functions[host.call.name],
                                              host.call.args)
                  ELSE Fail(VM, "MissingFunction")} :
        /\ Install(vm1)
        /\ last' = IF vm1.err = "" THEN [op |-> "running", result |-> Unit]
                   ELSE [op |-> "returned",
                         result |-> [kind |-> "Err", error |-> vm1.err]]
  /\ UNCHANGED <<host, build_profile, temp_manager, temporaries>>

\* one iteration of `while let Some(top) = self.call_stack.last_mut()`
RunStep ==
  /\ last.op = "running"
  /\ call_stack # <<>>
  /\ \E s \in {Step(VM, build_profile)} :
        /\ Install(s)
        /\ last' = IF s.err = "" THEN last
                   ELSE [op |-> "returned",
                         result |-> Returned([vm |-> s, status |-> "Err"], Nil)]
  /\ UNCHANGED <<host, build_profile, temp_manager, temporaries>>

\* the loop ends with an empty call stack: Ok(self.get_result())
RunEnd ==
  /\ last.op = "running"
  /\ call_stack = <<>>
  /\ last' = [op |-> "returned", result |-> [kind |-> "Ok", value |-> get_result(VM)]]
  /\ UNCHANGED <<functions, call_stack, register_stack, heap, host, build_profile, temp_manager, temporaries>>

NextPrograms == RunBegin \/ RunStep \/ RunEnd

InitGcd == InitPrograms(GcdExamples)

\* the gcd example. run does not pause: the thread that called it executes
\* the next instruction for as long as there is one
SpecGcd == InitGcd /\ [][NextPrograms]_vars /\ WF_vars(NextPrograms)

InitValues == InitPrograms(BinaryExamples \cup IndexExamples)

\* one operation on host values, compiled and run
SpecValues == InitValues /\ [][NextPrograms]_vars

InitLiterals == InitPrograms(LiteralExamples)

\* programs with literals, compiled and run
SpecLiterals == InitLiterals /\ [][NextPrograms]_vars

InitSearch == InitPrograms(RecursiveSearchExamples)

\* the recursive binary search example
SpecSearch == InitSearch /\ [][NextPrograms]_vars

----------------------------------------------------------------------------
(* The temporary allocator on its own: a TempManager and the handles its   *)
(* client holds. The client takes one temporary, takes a range, clones a   *)
(* handle or drops one, in any order. last.op names the operation and      *)
(* last.result the slot ids of the handles it returned.                    *)

MaxSlots == 4     \* the slots of the manager
MaxHandles == 4   \* the handles alive at a time
MaxRange == 3     \* the length of a range

InitTemps ==
  /\ build_profile \in Builds
  /\ temp_manager = NewTempManager(build_profile)
  /\ temporaries = <<>>
  /\ host = [program |-> "temporaries"]
  /\ functions = <<>>
  /\ call_stack = <<>>
  /\ register_stack = <<>>
  /\ heap = <<>>
  /\ last = [op |-> "new", result |-> <<>>]

\* the machine is not involved
UnchangedMachine ==
  UNCHANGED <<functions, call_stack, register_stack, heap, host, build_profile>>

\* let t = manager.take_temp();
TakeTemp ==
  /\ temp_manager.status = "ok"
  /\ Len(temporaries) < MaxHandles
  /\ \E r \in {take_temp(temp_manager)} :
       /\ Len(r.fc.temps_use_count) <= MaxSlots
       /\ temp_manager' = r.fc
       /\ temporaries' = Append(temporaries, r.op.id)
       /\ last' = [op |-> "take_temp", result |-> <<r.op.id>>]
  /\ UnchangedMachine

\* let range = manager.take_temp_range(total);
TakeTempRange(total) ==
  /\ temp_manager.status = "ok"
  /\ Len(temporaries) + total <= MaxHandles
  /\ \E r \in {take_temp_range(temp_manager, total)} :
       /\ Len(r.fc.temps_use_count) <= MaxSlots
       /\ temp_manager' = r.fc
       /\ temporaries' = temporaries \o r.ids
       /\ last' = [op |-> "take_temp_range", total |-> total, result |-> r.ids]
  /\ UnchangedMachine

\* let copy = handle.clone();
CloneTemporary(handle) ==
  /\ temp_manager.status = "ok"
  /\ Len(temporaries) < MaxHandles
  /\ temp_manager' = CloneTemp(temp_manager, Temporary(temporaries[handle]))
  /\ temporaries' = Append(temporaries, temporaries[handle])
  /\ last' = [op |-> "clone", result |-> <<temporaries[handle]>>]
  /\ UnchangedMachine

\* drop(handle);
DropTemporary(handle) ==
  /\ temp_manager.status = "ok"
  /\ temp_manager' = DropTemp(temp_manager, Temporary(temporaries[handle]))
  /\ temporaries' = SubSeq(temporaries, 1, handle - 1)
                       \o SubSeq(temporaries, handle + 1, Len(temporaries))
  /\ last' = [op |-> "drop", result |-> <<>>]
  /\ UnchangedMachine

NextTemps ==
  \/ TakeTemp
  \/ \E total \in 0..MaxRange : TakeTempRange(total)
  \/ \E handle \in 1..Len(temporaries) : CloneTemporary(handle)
  \/ \E handle \in 1..Len(temporaries) : DropTemporary(handle)

SpecTemps == InitTemps /\ [][NextTemps]_vars

----------------------------------------------------------------------------
(* The instruction encoding on its own: one constructor of bytecode/mod.rs *)
(* is called on operands of the classes it accepts, then the word is       *)
(* decoded with the decode function of its opcode family. host is the      *)
(* constructor call, last.result the word and then the decoded fields.     *)

\* the ends of each operand range, and a value inside it
Registers == {0, 1, 255}
Immediates == {-128, -1, 0, 127}
ConstantKeys == {0, 255}
ArgCounts == {0, 3, 15}
InstructionPointers == {0, 255, 256, 65535}

FunctionKey(n) == [k |-> "fn", n |-> n]
Global(n) == [k |-> "global", n |-> n]
NoOperand == [k |-> "none", n |-> 0]

RawRegisters == {RawRegister(n) : n \in Registers}
WildSources ==
  RawRegisters \cup {Immediate(n) : n \in Immediates}
                   \cup {ConstantKey(n) : n \in ConstantKeys}

\* a constructor call or a decoded instruction: the family or constructor,
\* the sub-op, and the operands (NoOperand, 0 where there is none)
Fields(name, sub, dest, first, second, ip, arg_count) ==
  [name |-> name, sub |-> sub, dest |-> dest, first |-> first, second |-> second,
   ip |-> ip, arg_count |-> arg_count]

ConstructorCalls ==
  {Fields("mov", 0, d, f, NoOperand, 0, 0) : d \in RawRegisters, f \in WildSources}
  \cup {Fields("index", on, d, f, i, 0, 0) :
          on \in {On_Destination, On_Source}, d \in RawRegisters,
          f \in WildSources, i \in WildSources}
  \cup {Fields(c, sub, d, f, r, 0, 0) :
          c \in {"cmp_wr"}, sub \in {Cmp_Eq, Cmp_Ge}, d \in RawRegisters,
          f \in WildSources, r \in RawRegisters}
  \cup {Fields(c, sub, d, r, f, 0, 0) :
          c \in {"cmp_rw"}, sub \in {Cmp_Eq, Cmp_Ge}, d \in RawRegisters,
          f \in WildSources, r \in RawRegisters}
  \cup {Fields(c, sub, d, f, r, 0, 0) :
          c \in {"math_wr"}, sub \in {Math_Add, Math_Pow}, d \in RawRegisters,
          f \in WildSources, r \in RawRegisters}
  \cup {Fields(c, sub, d, r, f, 0, 0) :
          c \in {"math_rw"}, sub \in {Math_Add, Math_Pow}, d \in RawRegisters,
          f \in WildSources, r \in RawRegisters}
  \cup {Fields("call", 0, d, FunctionKey(k), r, 0, n) :
          d \in RawRegisters, k \in ConstantKeys, r \in RawRegisters,
          n \in ArgCounts}
  \cup {Fields("jmp", 0, NoOperand, NoOperand, NoOperand, ip, 0) :
          ip \in InstructionPointers}
  \cup {Fields(c, 0, d, NoOperand, NoOperand, ip, 0) :
          c \in {"jmp_if_false", "jmp_if_true"}, d \in RawRegisters,
          ip \in InstructionPointers}

\* the constructor call c, evaluated
Construct(c) ==
  CASE c.name = "mov" -> mov(c.dest, c.first)
    [] c.name = "index" -> index(c.sub, c.dest, c.first, c.second)
    [] c.name = "cmp_wr" -> cmp_wr(c.sub, c.dest, c.first, c.second)
    [] c.name = "cmp_rw" -> cmp_rw(c.sub, c.dest, c.first, c.second)
    [] c.name = "math_wr" -> math_wr(c.sub, c.dest, c.first, c.second)
    [] c.name = "math_rw" -> math_rw(c.sub, c.dest, c.first, c.second)
    [] c.name = "call" -> call(c.arg_count, c.dest, c.first.n, c.second)
    [] c.name = "jmp" -> jmp(c.ip)
    [] c.name = "jmp_if_false" -> jmp_if_false(c.dest, c.ip)
    [] c.name = "jmp_if_true" -> jmp_if_true(c.dest, c.ip)

\* the match on a source type of the decode functions: from_first or
\* from_second (the byte), read as the class the type names
WildSourceFrom(type, byte) ==
  CASE type = 0 -> RawRegister(byte)
    [] type = 1 -> Global(byte)
    [] type = 2 -> Immediate(U8AsI8(byte))
    [] type = 3 -> ConstantKey(byte)

WildDestinationFrom(type, byte) ==
  IF type = 0 THEN RawRegister(byte) ELSE Global(byte)

\* misc::decode (jump, move and call), index::decode, comparison::decode and
\* arithmetic::decode; the name of a binary operation tells which source
\* is wild
decode(w) ==
  CASE SuperCode(w) = SuperCode_Misc /\ MiscSubcode(w) = Misc_Move ->
         Fields("mov", 0, WildDestinationFrom(OpField(w, 4, 1), from_destination(w)),
                WildSourceFrom(OpField(w, 5, 3), from_first(w)), NoOperand, 0, 0)
    [] SuperCode(w) = SuperCode_Misc /\ MiscSubcode(w) = Misc_Call ->
         Fields("call", 0, RawRegister(from_destination(w)), FunctionKey(from_first(w)),
                RawRegister(from_second(w)), 0, ArgCountFrom(w))
    [] SuperCode(w) = SuperCode_Misc /\ MiscSubcode(w) = Misc_Jump ->
         (CASE Reason(w) = Reason_Always ->
                 Fields("jmp", 0, NoOperand, NoOperand, NoOperand, from_both_operands(w), 0)
            [] Reason(w) \in {Reason_IfFalse, Reason_IfTrue} ->
                 Fields(IF Reason(w) = Reason_IfFalse THEN "jmp_if_false" ELSE "jmp_if_true",
                        0, WildDestinationFrom(OpField(w, 6, 1), from_destination(w)),
                        NoOperand, NoOperand, from_both_operands(w), 0)
            [] OTHER ->
                 Fields(IF Special(w) = Special_Return THEN "ret" ELSE "nop",
                        0, NoOperand, NoOperand, NoOperand, 0, 0))
    [] SuperCode(w) = SuperCode_Index ->
         Fields("index", OpField(w, 2, 1) * 4,
                WildDestinationFrom(OpField(w, 3, 1), from_destination(w)),
                WildSourceFrom(OpField(w, 4, 3), from_first(w)),
                WildSourceFrom(OpField(w, 6, 3), from_second(w)), 0, 0)
    [] SuperCode(w) \in {SuperCode_Comparison, SuperCode_Arithmetic} ->
         LET family == IF SuperCode(w) = SuperCode_Comparison THEN "cmp" ELSE "math" IN
         IF OpField(w, 5, 1) = Wild_First
         THEN Fields(family \o "_wr", OpField(w, 2, 7) * 4, RawRegister(from_destination(w)),
                     WildSourceFrom(OpField(w, 6, 3), from_first(w)),
                     RawRegister(from_second(w)), 0, 0)
         ELSE Fields(family \o "_rw", OpField(w, 2, 7) * 4, RawRegister(from_destination(w)),
                     RawRegister(from_first(w)),
                     WildSourceFrom(OpField(w, 6, 3), from_second(w)), 0, 0)
    [] OTHER -> Fields("interrupt", 0, NoOperand, NoOperand, NoOperand, 0, 0)

InitEncoding ==
  /\ host \in ConstructorCalls
  /\ build_profile \in Builds
  /\ temp_manager = NewTempManager(build_profile)
  /\ temporaries = <<>>
  /\ functions = <<>>
  /\ call_stack = <<>>
  /\ register_stack = <<>>
  /\ heap = <<>>
  /\ last = [op |-> "new", result |-> <<>>]

\* let instruction = mov(..) (or another constructor);
Encode ==
  /\ last.op = "new"
  /\ last' = [op |-> "encoded", result |-> Construct(host).word]
  /\ UNCHANGED <<temp_manager, temporaries>>
  /\ UnchangedMachine

\* let decoded = decode(instruction);
Decode ==
  /\ last.op = "encoded"
  /\ last' = [op |-> "decoded", word |-> last.result, result |-> decode(last.result)]
  /\ UNCHANGED <<temp_manager, temporaries>>
  /\ UnchangedMachine

NextEncoding == Encode \/ Decode

SpecEncoding == InitEncoding /\ [][NextEncoding]_vars

----------------------------------------------------------------------------
(* The compiler on its own: compile_function on one declaration, in two    *)
(* steps: the statements are compiled (last.result is the FunctionCompiler *)
(* with its deferred temporaries), then finish builds the Procedure.       *)

\* function dup_call(a, a) return id(a) end
Decl_dup_call ==
  FunctionDecl("dup_call", <<"a", "a">>,
    <<ReturnStatement(FunctionCall("id", <<Identifier("a")>>))>>)

\* function negative(a) return -1 + id(a) end
Decl_negative ==
  FunctionDecl("negative", <<"a">>,
    <<ReturnStatement(Binary(Integer(-1), "Add",
                             FunctionCall("id", <<Identifier("a")>>)))>>)

MaxArgs == 16   \* the arguments of the longest call: one more than ArgCount holds

\* function many(a) return id(a, .., a) end, with n arguments
Decl_many(n) ==
  FunctionDecl("many", <<"a">>,
    <<ReturnStatement(FunctionCall("id", [i \in 1..n |-> Identifier("a")]))>>)

\* function nested(a) x = id(id(a)) + id() return x end
Decl_nested ==
  FunctionDecl("nested", <<"a">>,
    <<AssignStatement("x",
        Binary(FunctionCall("id", <<FunctionCall("id", <<Identifier("a")>>)>>),
               "Add", FunctionCall("id", <<>>))),
      ReturnStatement(Identifier("x"))>>)

\* function branches(a, b)
\*   while a > b do a = a - 1 if a == 10 then a = b end end
\*   if b then return a else a = b end
\*   if a then b = a end
\* end
Decl_branches ==
  FunctionDecl("branches", <<"a", "b">>,
    <<WhileStatement(Binary(Identifier("a"), "Gt", Identifier("b")),
        <<AssignStatement("a", Binary(Identifier("a"), "Sub", Integer(1))),
          IfStatement(Binary(Identifier("a"), "Eq", Integer(10)),
                      <<AssignStatement("a", Identifier("b"))>>)>>),
      IfElseStatement(Identifier("b"),
                      <<ReturnStatement(Identifier("a"))>>,
                      <<AssignStatement("a", Identifier("b"))>>),
      IfStatement(Identifier("a"), <<AssignStatement("b", Identifier("a"))>>)>>)

CompiledDeclarations ==
  {Declarations[i] : i \in 1..Len(Declarations)}
  \cup {Decl_many(n) : n \in {1, MaxArgs - 1, MaxArgs}}
  \cup {Decl_nested, Decl_branches}
  \cup {Decl_id_next, Decl_gcd, Decl_binary_search_helper, Decl_binary_search_recursive,
        Decl_binary_search_iterative, Decl_read, Decl_store, Decl_mixed,
        Decl_dup_call, Decl_negative}
  \cup {Decl_apply(op) : op \in ArithmeticOperators \cup ComparisonOperators}
  \cup {Decl_literal(shape, n) :
          shape \in {"return", "right", "left"}, n \in BoundaryLiterals}

InitCompiler ==
  /\ host \in {[program |-> "compile", declaration |-> d] : d \in CompiledDeclarations}
  /\ build_profile \in Builds
  /\ temp_manager = NewTempManager(build_profile)
  /\ temporaries = <<>>
  /\ functions = <<>>
  /\ call_stack = <<>>
  /\ register_stack = <<>>
  /\ heap = <<>>
  /\ last = [op |-> "new", result |-> <<>>]

\* compile_function: the statements, and the implicit return
CompileStatements ==
  /\ last.op = "new"
  /\ last' = [op |-> "compiled",
              result |-> compile_statements(host.declaration, build_profile)]
  /\ UNCHANGED <<temp_manager, temporaries>>
  /\ UnchangedMachine

\* compile_function: function_compiler.finish()
Finish ==
  /\ last.op = "compiled"
  /\ last' = [op |-> "finished", compiler |-> last.result, result |-> finish(last.result)]
  /\ UNCHANGED <<temp_manager, temporaries>>
  /\ UnchangedMachine

NextCompiler == CompileStatements \/ Finish

SpecCompiler == InitCompiler /\ [][NextCompiler]_vars

----------------------------------------------------------------------------
(* Properties *)

AllDeclarations ==
  {Declarations[i] : i \in 1..Len(Declarations)} \cup {Decl_id_next}

EndsInReturn(declaration) ==
  /\ Len(declaration.body) > 0
  /\ declaration.body[Len(declaration.body)].s = "Return"

\* the instruction the top frame executes next, <<>> if there is none
Fetched ==
  IF call_stack = <<>> THEN <<>>
  ELSE LET top == Top(VM) IN
       IF top.pc + 1 < Len(top.procedure.bytecode)
       THEN <<top.procedure.bytecode[top.pc + 2]>>
       ELSE <<>>

\* this step is one execution_loop(Limited(1)) on a machine with a frame
SingleStep ==
  /\ call_stack # <<>>
  /\ Fetched # <<>>
  /\ last'.op = "loop"
  /\ last'.limit = Limited(1)

\* C1: on every machine where entry_name is registered, run(entry_name, args)
\* returns the value that the entry function it started returns.
C1_RunReturnsEntryValue ==
  (last.op = "run" /\ last.result.kind = "Ok") => last.entry = <<last.result.value>>

\* the value of an argument expression in the top frame of vm: a name is the
\* register bound to it, a call is what the callee returns for those values
RECURSIVE ValueOf(_, _)
ValueOf(vm, expression) ==
  CASE expression.e = "Identifier" ->
         register(vm, Top(vm).procedure.ident_map[expression.name]).value
    [] expression.e = "Integer" -> IntegerValue(expression.v)
    [] expression.e = "Boolean" -> BooleanValue(expression.v)
    [] expression.e = "Binary" ->
         IF IsArithmetic(expression.op)
         THEN Arithmetic(ArithmeticSubcode(expression.op),
                         ValueOf(vm, expression.left),
                         ValueOf(vm, expression.right)).value
         ELSE Compare(vm.heap, ComparisonSubcode(expression.op),
                      ValueOf(vm, expression.left),
                      ValueOf(vm, expression.right)).value
    [] expression.e = "Index" ->
         get(vm.heap, ValueOf(vm, expression.left), ValueOf(vm, expression.index)).value
    [] expression.e = "FunctionCall" ->
         get_result(run(NewMachine(vm.functions, vm.heap), expression.name,
                        [i \in 1..Len(expression.args) |-> ValueOf(vm, expression.args[i])],
                        Fuel, build_profile).vm)

\* C2: when the Call of a call expression f(e1,...,ek) executes, the caller's
\* registers arg_start..arg_start+k-1 hold the values of e1..ek in order.
C2_CallArgumentsHoldValues ==
  Fetched # <<>> =>
    LET top == Top(VM)
        sites == top.procedure.call_sites
    IN \A s \in 1..Len(sites) :
         sites[s].offset = top.pc + 1 =>
           \A i \in 1..Len(sites[s].args) :
             register(VM, from_second(Fetched[1]) + i - 1)
               = Ok(ValueOf(VM, sites[s].args[i]))

\* C3: a function whose body does not end in a return statement ends in a
\* Return instruction, and when execution reaches it the result slot is Nil.
C3_ImplicitReturnNil ==
  call_stack # <<>> =>
    LET top == Top(VM) IN
    \A declaration \in AllDeclarations :
      (/\ ~EndsInReturn(declaration)
       /\ top.procedure = compile_function(declaration, build_profile)
       /\ top.pc + 2 = Len(top.procedure.bytecode))
      => /\ Fetched = <<ret.word>>
         /\ register_stack[top.register_start + 1] = Nil

\* C4: execution_loop(Limited(k)) returns Finished whenever the call stack is
\* empty when it returns, and Unfinished only when a frame remains.
C4_FinishedIffEmpty ==
  (last.op = "loop" /\ last.limit.limited /\ last.result.kind = "Ok")
    => (last.result.value = "Finished" <=> call_stack = <<>>)

\* the registers an instruction names
RegisterOperands(w) ==
  LET wild(type, byte) == IF type = 0 THEN {byte} ELSE {} IN
  CASE SuperCode(w) = SuperCode_Misc ->
         (CASE MiscSubcode(w) = Misc_Jump ->
                 IF Reason(w) \in {Reason_IfFalse, Reason_IfTrue}
                 THEN {from_destination(w)} ELSE {}
            [] MiscSubcode(w) = Misc_Move ->
                 {from_destination(w)} \cup wild(OpField(w, 5, 3), from_first(w))
            [] MiscSubcode(w) = Misc_Call ->
                 {from_destination(w)}
                   \cup {from_second(w) + j - 1 : j \in 1..ArgCountFrom(w)}
            [] OTHER -> {})
    [] SuperCode(w) = SuperCode_Index ->
         {from_destination(w)} \cup wild(OpField(w, 4, 3), from_first(w))
           \cup wild(OpField(w, 6, 3), from_second(w))
    [] OTHER ->
         {from_destination(w)}
           \cup (IF OpField(w, 5, 1) = Wild_First
                 THEN wild(OpField(w, 6, 3), from_first(w)) \cup {from_second(w)}
                 ELSE {from_first(w)} \cup wild(OpField(w, 6, 3), from_second(w)))

\* C5: every compiled procedure has register_count <= 256, names only
\* registers below register_count, and has room for all declared parameters.
C5_RegistersFit ==
  \A declaration \in AllDeclarations :
    LET p == compile_function(declaration, build_profile) IN
    p.status = "ok" =>
      /\ p.register_count <= 256
      /\ \A i \in 1..Len(p.bytecode) :
           \A r \in RegisterOperands(p.bytecode[i]) : r < p.register_count
      /\ p.max_args < p.register_count

\* C6: two successive run calls with the same name and the same argument
\* values (scalars or arrays) return equal values.
C6_RepeatedRunEqual ==
  (/\ last.op = "run"
   /\ last.again # <<>>
   /\ last.result.kind = "Ok"
   /\ last.again[1].kind = "Ok")
  => ValueEq(heap, last.again[1].value, last.result.value)

\* C7: while an entry frame (return_index 0) is on the call stack, that is
\* from its initialisation to its Return, get_result() is Nil.
C7_ResultNilUntilReturn ==
  (\E i \in 1..Len(call_stack) : call_stack[i].return_index = 0)
    => get_result(VM) = Nil

\* C8: a JumpIfFalse sets pc to its target iff the condition register holds
\* exactly Boolean(false), a JumpIfTrue iff it holds exactly Boolean(true);
\* otherwise execution falls through; no register changes either way.
C8_Step ==
  (/\ SingleStep
   /\ SuperCode(Fetched[1]) = SuperCode_Misc
   /\ MiscSubcode(Fetched[1]) = Misc_Jump
   /\ Reason(Fetched[1]) \in {Reason_IfFalse, Reason_IfTrue}
   /\ OpField(Fetched[1], 6, 1) = 0
   /\ register(VM, from_destination(Fetched[1])).err = "")
  => LET w == Fetched[1]
         n == Len(call_stack)
         flag == register(VM, from_destination(w)).value
         taken == \/ (Reason(w) = Reason_IfFalse /\ flag = BooleanValue(FALSE))
                  \/ (Reason(w) = Reason_IfTrue /\ flag = BooleanValue(TRUE))
     IN /\ Len(call_stack') = n
        /\ call_stack'[n].pc = IF taken THEN from_both_operands(w)
                                ELSE call_stack[n].pc + 1
        /\ register_stack' = register_stack

C8_ConditionalJumps == [][C8_Step]_vars

\* a JumpIfTrue on Boolean(true) has been taken: pc 3 of pick_true is
\* reached only through the jump
C8_Witness ==
  /\ call_stack # <<>>
  /\ last.op = "loop"
  /\ Top(VM).procedure = Procedure_pick_true
  /\ Top(VM).pc = 3
  /\ register(VM, 1) = Ok(BooleanValue(TRUE))

C9_EndToEnd ==
  (last.op = "run" /\ last.name = "alias" /\ last.result.kind = "Ok")
    => /\ last.result.value = last.args[2]
       /\ get(heap, last.args[1], IntegerValue(0)) = Ok(last.args[2])

C9_Step ==
  (/\ SingleStep
   /\ SuperCode(Fetched[1]) = SuperCode_Index
   /\ OpField(Fetched[1], 2, 1) * 4 = On_Destination
   /\ last'.result.kind = "Ok")
  => LET w == Fetched[1]
         destination == register(VM, from_destination(w)).value
         source_value == WildValue(VM, OpField(w, 4, 3), from_first(w)).value
         index_value == WildValue(VM, OpField(w, 6, 3), from_second(w)).value
     IN (0 <= index_value.i /\ index_value.i <= Len(heap[destination.a]))
        => \A s \in 1..Len(register_stack') :
             register_stack'[s] = destination
               => get(heap', register_stack'[s], index_value) = Ok(source_value)

\* C9: after an Array has been copied by Move or passed by Call, an index
\* assignment through one alias, in any frame, is read back through every
\* other alias, also in the caller after the writing frame has returned.
C9_ArrayAliasing == []C9_EndToEnd /\ [][C9_Step]_vars

\* alias(arr, 5) has run: the callee wrote through its copy of the copy b,
\* the caller read 5 through arr
C9_Witness ==
  /\ last.op = "run"
  /\ last.name = "alias"
  /\ last.result = [kind |-> "Ok", value |-> IntegerValue(5)]

C10_Step ==
  /\ last'.op \in {"insert", "remove"} => call_stack' = call_stack
  /\ last'.op = "remove" => last'.name \notin DOMAIN functions'
  /\ SingleStep =>
       \A i \in 1..Min(Len(call_stack), Len(call_stack')) :
          call_stack'[i].procedure = call_stack[i].procedure
  /\ (/\ SingleStep
      /\ SuperCode(Fetched[1]) = SuperCode_Misc
      /\ MiscSubcode(Fetched[1]) = Misc_Call)
     => LET w == Fetched[1]
            names == Top(VM).procedure.functions
            n == Len(call_stack)
        IN from_first(w) < Len(names) =>
             IF names[from_first(w) + 1] \in DOMAIN functions
             THEN last'.result.kind = "Ok"
                    => /\ Len(call_stack') = n + 1
                       /\ call_stack'[n + 1].procedure = functions[names[from_first(w) + 1]]
             ELSE /\ last'.result = [kind |-> "Err", error |-> "MissingFunction"]
                  /\ Len(call_stack') = n

\* C10: a Call resolves its callee by name in the function table as it is
\* when the Call executes (the new procedure after insert_function,
\* MissingFunction after remove_function); frames already on the call stack
\* keep the procedure they were created with.
C10_LateBinding == [][C10_Step]_vars

\* caller runs the later definition of id, inserted while caller was
\* already on the call stack
C10_Witness ==
  /\ Len(call_stack) = 2
  /\ call_stack[1].procedure = compile_function(Decl_caller, build_profile)
  /\ call_stack[2].procedure = compile_function(Decl_id_next, build_profile)
  /\ "id" \in DOMAIN functions
  /\ functions["id"] = compile_function(Decl_id_next, build_profile)

\* the machine after the first j instructions it fetches from vm: pc += 1,
\* fetch, execute, for as long as there is a frame and no error
RECURSIVE Executed(_, _, _)
Executed(vm, j, build) ==
  IF j = 0 \/ vm.call_stack = <<>> \/ vm.err # "" THEN vm
  ELSE Executed(Step(vm, build), j - 1, build)

UnfinishedResult == [kind |-> "Ok", value |-> "Unfinished"]

C11_Step ==
  (last'.op = "loop" /\ last'.limit.limited) =>
    /\ \E j \in 0..last'.limit.count :
          \E e \in {Executed(VM, j, build_profile)} :
             /\ call_stack' = e.call_stack
             /\ register_stack' = e.register_stack
             /\ heap' = e.heap
    /\ (host = HostForever /\ call_stack # <<>>) =>
          /\ last'.result = UnfinishedResult
          /\ call_stack' # <<>>

\* C11: a call execution_loop(Limited(k)) leaves the machine as it is after
\* at most k fetched and executed instructions; while forever(0) runs, whose
\* loop condition x >= 0 never becomes Boolean(false), every such call, for
\* every k and however often it is repeated, returns Ok(Unfinished) and
\* leaves the call stack non-empty.
C11_LimitedSlices == [][C11_Step]_vars

\* forever has gone round its loop in slices of at least one instruction and
\* is about to jump back to the condition
C11_Witness ==
  /\ host = HostForever
  /\ last.op = "loop"
  /\ last.limit.limited
  /\ last.limit.count >= 1
  /\ last.result = UnfinishedResult
  /\ Fetched = <<jmp(1).word>>

\* the greatest common divisor of two positive integers
Divisors(a, b) == {d \in 1..Min(a, b) : a % d = 0 /\ b % d = 0}
GreatestCommonDivisor(a, b) ==
  CHOOSE d \in Divisors(a, b) : \A e \in Divisors(a, b) : e <= d

C12_Returned ==
  host.program = "gcd" =>
    /\ last.op = "returned"
    /\ call_stack = <<>>
    /\ last.result =
         [kind |-> "Ok",
          value |-> IntegerValue(GreatestCommonDivisor(host.call.args[1].i,
                                                       host.call.args[2].i))]

\* C12: for positive integers a and b, run("gcd", [a, b]) on the compiled
\* gcd program terminates with the call stack empty and returns
\* Integer(gcd(a, b)); for (250, 135) and (25000, 135) that is Integer(5).
C12_GcdTerminates == <>C12_Returned

\* the benchmark's run has returned Integer(5)
C12_Witness ==
  /\ host.program = "gcd"
  /\ host.call.args = <<IntegerValue(25000), IntegerValue(135)>>
  /\ last.op = "returned"
  /\ call_stack = <<>>
  /\ last.result = [kind |-> "Ok", value |-> IntegerValue(5)]

\* what the iterative example returns for the array and the call of host
IterativeRun ==
  run(NewMachine(with_functions(IterativeSearch, build_profile), host.heap),
      host.call.name, host.call.args, ProgramFuel, build_profile)

\* Integer(index of the needle) if the array holds it, Boolean(false) if not
IndexOrFalse(array, needle, value) ==
  IF \E i \in 1..Len(array) : array[i] = needle
  THEN /\ value.t = "Integer"
       /\ value.i \in 0..Len(array) - 1
       /\ array[value.i + 1] = needle
  ELSE value = BooleanValue(FALSE)

\* C13: for every sorted integer array and every needle, the recursive
\* binary_search program, whose entry function is the single expression
\* statement that calls binary_search_helper, returns the Value the iterative
\* program returns: the Integer index of the needle if the array holds it,
\* Boolean(false) if not.
C13_RecursiveAsIterative ==
  (host.program = "recursive_binary_search" /\ last.op = "returned") =>
    \E r \in {IterativeRun} :
       /\ r.status = "Finished"
       /\ last.result = Returned(r, get_result(r.vm))
       /\ IndexOrFalse(host.heap[1], IntegerValue(host.call.args[3].i),
                       last.result.value)

\* the recursive search of the example has found 14 at index 8, three calls
\* of the helper deep
C13_Witness ==
  /\ host.program = "recursive_binary_search"
  /\ host.heap[1] = ValueFromIter(rust_array)
  /\ host.call.args[3] = IntegerValue(14)
  /\ last.op = "returned"
  /\ last.result = [kind |-> "Ok", value |-> IntegerValue(8)]

\* C14: Add, Sub, Mul and Div write an Integer for two Integers and a Float
\* for two Floats, Rem writes an Integer for two Integers only, and for every
\* other pair of operands the instruction writes Nil; no RuntimeError, and
\* execution continues (the Return after it executes and run returns Ok).
C14_ArithmeticResults ==
  (host.program \in ArithmeticOperators /\ last.op = "returned") =>
    /\ last.result.kind = "Ok"
    /\ last.result.value.t =
         (LET first == host.call.args[1]
              second == host.call.args[2]
          IN CASE first.t = "Integer" /\ second.t = "Integer" -> "Integer"
               [] first.t = "Float" /\ second.t = "Float" /\ host.program # "Rem" ->
                    "Float"
               [] OTHER -> "Nil")

\* the same variant with equal content; an array's content is its elements
EqualContent(h, a, b) ==
  /\ a.t = b.t
  /\ IF a.t = "Array" THEN h[a.a] = h[b.a] ELSE a = b

\* the relation of a comparison operator on two i64
Related(op, m, n) ==
  CASE op = "Lt" -> m < n [] op = "Gt" -> m > n
    [] op = "Le" -> m <= n [] op = "Ge" -> m >= n

\* C15: every comparison writes a Boolean. Lt, Gt, Le and Ge write true for
\* two Integers that satisfy the relation and false for every other pair,
\* two equal Floats under Le and Ge included; Eq writes true for two operands
\* of the same variant with equal content and false otherwise (Integer(2) and
\* Float(2.0) are not equal); Ne writes the negation of Eq.
C15_ComparisonResults ==
  (host.program \in ComparisonOperators /\ last.op = "returned") =>
    LET first == host.call.args[1]
        second == host.call.args[2]
        equal == EqualContent(host.heap, first, second)
    IN /\ last.result.kind = "Ok"
       /\ last.result.value =
            BooleanValue(CASE host.program = "Eq" -> equal
                           [] host.program = "Ne" -> ~equal
                           [] OTHER -> /\ first.t = "Integer"
                                       /\ second.t = "Integer"
                                       /\ Related(host.program, first.i, second.i))

\* two equal Floats compared with <=: false
C15_Witness ==
  /\ host.program = "Le"
  /\ host.call.args = <<FloatValue(2), FloatValue(2)>>
  /\ last.op = "returned"
  /\ last.result = [kind |-> "Ok", value |-> BooleanValue(FALSE)]

C16_Returned ==
  LET a == host.heap[1]
      n == Len(a)
      i == host.call.args[2].i
  IN /\ (host.program = "read" /\ last.op = "returned") =>
          /\ last.result = [kind |-> "Ok",
                            value |-> IF 0 <= i /\ i < n THEN a[i + 1] ELSE Nil]
          /\ heap[1] = a
     /\ (host.program = "store" /\ last.op = "returned") =>
          /\ last.result.kind = "Ok"
          /\ heap[1] = IF 0 <= i /\ i < n THEN [a EXCEPT ![i + 1] = host.call.args[3]]
                       ELSE IF i = n THEN Append(a, host.call.args[3])
                       ELSE a

\* C16: for an Array of length n and an Integer index i, a read yields the
\* element at i if 0 <= i < n and Nil otherwise, and never changes the array;
\* a write overwrites the element if 0 <= i < n, appends if i = n and leaves
\* the array unchanged if i > n or i < 0; no read or write shortens an array.
C16_ArrayIndexing ==
  (host.program \in {"read", "store"}) =>
    /\ C16_Returned
    /\ Len(heap[1]) >= Len(host.heap[1])

\* a write at the index n of an array of n >= 1 elements has appended
C16_Witness ==
  /\ host.program = "store"
  /\ Len(host.heap[1]) >= 1
  /\ host.call.args[2].i = Len(host.heap[1])
  /\ last.op = "returned"
  /\ heap[1] = Append(host.heap[1], host.call.args[3])

\* the next instruction of vm is a Call whose function key is outside the
\* function list of its procedure, or names a function the table does not bind
MissingCallee(vm) ==
  /\ vm.call_stack # <<>>
  /\ LET top == Top(vm) IN
     /\ top.pc + 1 < Len(top.procedure.bytecode)
     /\ LET w == top.procedure.bytecode[top.pc + 2] IN
        /\ SuperCode(w) = SuperCode_Misc
        /\ MiscSubcode(w) = Misc_Call
        /\ \/ from_first(w) >= Len(top.procedure.functions)
           \/ top.procedure.functions[from_first(w) + 1] \notin DOMAIN vm.functions

\* the machine, run from vm for at most budget instructions, when it is about
\* to execute a Call without a callee; <<>> if it does not get to one
RECURSIVE UntilMissingCallee(_, _, _)
UntilMissingCallee(vm, budget, build) ==
  IF vm.call_stack = <<>> \/ vm.err # "" \/ budget = 0 THEN <<>>
  ELSE IF MissingCallee(vm) THEN <<vm>>
  ELSE UntilMissingCallee(Step(vm, build), budget - 1, build)

MissingFunctionError == [kind |-> "Err", error |-> "MissingFunction"]

\* this step's host call ends at the Call that m is about to execute: it
\* returns MissingFunction, the Call has been fetched and nothing else changed
EndsAtMissingCallee(m) ==
  m # <<>> =>
    /\ last'.result = MissingFunctionError
    /\ call_stack' = [m[1].call_stack EXCEPT ![Len(m[1].call_stack)].pc = @ + 1]
    /\ register_stack' = m[1].register_stack
    /\ heap' = m[1].heap

C17_Step ==
  /\ (last'.op = "run" /\ last'.name \notin DOMAIN functions) =>
       /\ last'.result = MissingFunctionError
       /\ call_stack' = call_stack
       /\ register_stack' = register_stack
  /\ (last'.op = "run" /\ last'.name \in DOMAIN functions) =>
       \E started \in {initialize_with_values(VM, functions[last'.name], last'.args)} :
          started.err = "" =>
            EndsAtMissingCallee(UntilMissingCallee(started, Fuel, build_profile))
  /\ last'.op = "loop" =>
       EndsAtMissingCallee(
         UntilMissingCallee(VM, IF last'.limit.limited THEN last'.limit.count ELSE Fuel,
                            build_profile))

\* C17: run with a name the table does not bind returns MissingFunction and
\* leaves the call stack and the register stack unchanged; a Call whose
\* function key is outside its procedure's function list, or whose name the
\* table does not bind, returns MissingFunction before a register-stack slot
\* is allocated or a frame pushed, and the run or execution_loop call in which
\* it occurs executes no further instruction.
C17_MissingFunction == [][C17_Step]_vars

\* the wild source of a move, a comparison or an arithmetic instruction: its
\* SourceType bits and its operand byte; type 0 for every other instruction
LiteralOperand(w) ==
  CASE SuperCode(w) \in {SuperCode_Comparison, SuperCode_Arithmetic} ->
         [type |-> OpField(w, 6, 3),
          byte |-> IF OpField(w, 5, 1) = Wild_First THEN from_first(w)
                   ELSE from_second(w)]
    [] SuperCode(w) = SuperCode_Misc /\ MiscSubcode(w) = Misc_Move ->
         [type |-> OpField(w, 5, 3), byte |-> from_first(w)]
    [] OTHER -> [type |-> 0, byte |-> 0]

\* the offsets (from 1) of the instructions of bytecode that hold a literal
LiteralSites(bytecode) ==
  {j \in 1..Len(bytecode) : LiteralOperand(bytecode[j]).type \in {2, 3}}

\* the ConstantValue of a literal
ConstantOf(literal) ==
  CASE literal.e = "Integer" -> ConstantInteger(literal.v)
    [] literal.e = "Boolean" -> ConstantBoolean(literal.v)
    [] literal.e = "String" -> ConstantString(literal.v)

\* C18: in every compiled procedure P, each ConstantKey operand k is less
\* than the length of P.constants and P.constants[k] is the literal the
\* operand was compiled from; each FunctionKey operand k is less than the
\* length of P.functions and P.functions[k] is the name called at that site.
C18_KeysResolve ==
  last.op = "new" =>
    LET P == functions[host.call.name]
        sites == LiteralSites(P.bytecode)
    IN /\ Cardinality(sites) = Len(host.literals)
       /\ \A j \in sites :
            LET operand == LiteralOperand(P.bytecode[j])
                literal == host.literals[Cardinality({i \in sites : i <= j})]
            IN operand.type = 3 =>
                 /\ operand.byte < Len(P.constants)
                 /\ P.constants[operand.byte + 1] = ConstantOf(literal)
       /\ \A k \in 1..Len(P.call_sites) :
            LET key == from_first(P.bytecode[P.call_sites[k].offset + 1])
            IN /\ key < Len(P.functions)
               /\ P.functions[key + 1] = P.call_sites[k].name

\* C19: an integer literal n is lowered to an Immediate if and only if
\* -128 <= n <= 127 and to a ConstantKey otherwise; the value the machine
\* reads from the operand when it executes the instruction is Integer(n).
C19_IntegerLiterals ==
  (last.op = "running" /\ Len(call_stack) = 1 /\ Fetched # <<>>) =>
    LET operand == LiteralOperand(Fetched[1])
        top == Top(VM)
        sites == LiteralSites(SubSeq(top.procedure.bytecode, 1, top.pc + 2))
        literal == host.literals[Cardinality(sites)]
    IN (operand.type \in {2, 3} /\ literal.e = "Integer") =>
         /\ operand.type = 2 <=> (-128 <= literal.v /\ literal.v <= 127)
         /\ WildValue(VM, operand.type, operand.byte) = Ok(IntegerValue(literal.v))

\* the slot ids of a sequence of handles
Slots(handles) == {handles[i] : i \in 1..Len(handles)}

\* a take_temp_range(k) that returned: every slot of the range was free
\* before the call or did not exist, and no handle alive before the call
\* is on a slot of the range
C20_Step ==
  (last'.op = "take_temp_range" /\ temp_manager'.status = "ok") =>
    \A id \in Slots(last'.result) :
      /\ \/ id >= Len(temp_manager.temps_use_count)
         \/ temp_manager.temps_use_count[id + 1] = 0
      /\ id \notin Slots(temporaries)

\* C20: in every allocator state reachable by take_temp, take_temp_range,
\* clone and drop, each slot id returned by take_temp_range(k), k >= 1, had
\* use count zero immediately before the call or is a newly appended slot,
\* and no slot is held at once by the returned range and by a handle that
\* was alive before the call.
C20_RangeSlotsFree == [][C20_Step]_vars

\* C21: in every reachable allocator state and for every k >= 0,
\* take_temp_range(k) terminates without arithmetic underflow or overflow
\* and returns exactly k handles whose slot ids are consecutive and
\* increasing.
C21_RangeReturned ==
  last.op = "take_temp_range" =>
    /\ temp_manager.status = "ok"
    /\ Len(last.result) = last.total
    /\ \A i \in 1..Len(last.result) : last.result[i] = last.result[1] + i - 1

\* the byte an operand is stored as
OperandByte(op) == IF op.k = "none" THEN 0 ELSE op.n % 256

\* C22: for every instruction constructor and every in-range operand tuple,
\* decoding the encoded word returns the same family, sub-op, operand
\* classes and operand values; each operand only sets bits of its own
\* operand byte, so the non-wild register of a binary operation and the
\* index operand of an index instruction are not altered by the other
\* operand.
C22_DecodeEncoded ==
  last.op = "decoded" =>
    /\ last.result = host
    /\ host.name \notin {"jmp", "jmp_if_false", "jmp_if_true"} =>
         /\ from_first(last.word) = OperandByte(host.first)
         /\ from_second(last.word) = OperandByte(host.second)
    /\ host.name # "jmp" => from_destination(last.word) = OperandByte(host.dest)

\* the operand byte of bytecode that the deferred write d targets
TargetByte(bytecode, d) == bytecode[d.instruction_offset + 1][d.bit_offset \div 8 + 1]

\* C23: for every deferred-write record produced while compiling a function,
\* the targeted operand byte of the targeted instruction is zero before
\* finalisation, no two records target the same operand byte of the same
\* instruction, and after finish() that byte equals 1 + |ident_map| +
\* slot_id, a register that belongs to no named local or parameter.
C23_DeferredWrites ==
  /\ (last.op = "compiled" /\ last.result.status = "ok") =>
       LET fc == last.result IN
       /\ \A j \in 1..Len(fc.deferred_temps) :
            TargetByte(fc.bytecode, fc.deferred_temps[j]) = 0
       /\ \A i, j \in 1..Len(fc.deferred_temps) :
            (/\ fc.deferred_temps[i].instruction_offset = fc.deferred_temps[j].instruction_offset
             /\ fc.deferred_temps[i].bit_offset = fc.deferred_temps[j].bit_offset) => i = j
  /\ (last.op = "finished" /\ last.result.status = "ok") =>
       LET fc == last.compiler
           named == {fc.ident_map[n] : n \in DOMAIN fc.ident_map}
       IN \A j \in 1..Len(fc.deferred_temps) :
            LET byte == TargetByte(last.result.bytecode, fc.deferred_temps[j]) IN
            /\ byte = 1 + Cardinality(DOMAIN fc.ident_map) + fc.deferred_temps[j].id
            /\ byte \notin named \cup {0}

\* the register byte of an operand the compiler holds, once finish has
\* resolved the temporaries of the compiler fc
RegisterByte(fc, op) ==
  IF op.k = "temp" THEN (AsU8(fc.next_register) + AsU8(op.id)) % 256 ELSE op.n

\* C24: for every call expression with n arguments that the compiler
\* accepts, the emitted Call instruction decodes to arg-count n and to the
\* destination register the compiler chose: the arg-count field stays within
\* bits 4..8 of the opcode byte and never changes the destination byte.
C24_CallArgCount ==
  (last.op = "finished" /\ last.result.status = "ok") =>
    \A k \in 1..Len(last.result.call_sites) :
      LET site == last.result.call_sites[k]
          w == last.result.bytecode[site.offset + 1]
      IN /\ decode(w).name = "call"
         /\ ArgCountFrom(w) = Len(site.args)
         /\ w[1] = SuperCode_Misc + Misc_Call + Len(site.args) * 2 ^ ArgCount_OFFSET
         /\ from_destination(w) = RegisterByte(last.compiler, site.dest)

\* this step is one execution_loop(Limited(1)) that executed a Call and
\* returned no error
CallStep ==
  /\ SingleStep
  /\ SuperCode(Fetched[1]) = SuperCode_Misc
  /\ MiscSubcode(Fetched[1]) = Misc_Call
  /\ last'.result.kind = "Ok"

C25_Step ==
  CallStep =>
    LET w == Fetched[1]
        n == Len(call_stack)
        caller == call_stack[n]
        callee == call_stack'[n + 1]
        base == Len(register_stack)
        arg_start == from_second(w)
        arg_count == ArgCountFrom(w)
    IN /\ Len(call_stack') = n + 1
       /\ Len(register_stack') = base + callee.procedure.register_count
       /\ callee.pc = 0
       /\ callee.register_start = base
       /\ callee.return_index = caller.register_start + from_destination(w)
       /\ \A i \in 1..arg_count :
            register(VM, arg_start + i - 1) = Ok(register_stack'[base + i + 1])
       /\ \A i \in 0..(callee.procedure.register_count - 1) :
            i \notin 1..arg_count => register_stack'[base + i + 1] = Nil
       /\ \A j \in 1..base : register_stack'[j] = register_stack[j]

\* C25: a successful Call with destination d, arg_start s and arg count n
\* appends exactly callee.register_count slots to the register stack and
\* pushes one frame with pc = 0, register_start = the previous register
\* stack length and return_index = caller.register_start + d; callee
\* register i holds the caller's register s + i - 1 for 1 <= i <= n, every
\* other callee register, register 0 included, is Nil whatever earlier
\* frames left at those positions; no caller register is changed.
C25_CallFrame == [][C25_Step]_vars

ReturnStep ==
  /\ SingleStep
  /\ SuperCode(Fetched[1]) = SuperCode_Misc
  /\ MiscSubcode(Fetched[1]) = Misc_Jump
  /\ Reason(Fetched[1]) = Reason_Special
  /\ Special(Fetched[1]) = Special_Return
  /\ last'.result.kind = "Ok"

\* the destination operand of the Call the frame below the top is stopped at
CallDestination(caller) ==
  from_destination(caller.procedure.bytecode[caller.pc + 1])

C26_Step ==
  ReturnStep =>
    LET n == Len(call_stack)
        callee == call_stack[n]
        value == register_stack[callee.register_start + 1]
    IN /\ call_stack' = SubSeq(call_stack, 1, n - 1)
       /\ Len(register_stack') = callee.register_start
       /\ IF callee.return_index = 0
          THEN /\ register_stack'[1] = value
               /\ call_stack' = <<>>
          ELSE LET caller == call_stack[n - 1]
                   d == CallDestination(caller)
               IN /\ d < caller.procedure.register_count
                  /\ register_stack'[caller.register_start + d + 1] = value
                  /\ \A j \in 1..callee.register_start :
                       j # caller.register_start + d + 1
                         => register_stack'[j] = register_stack[j]

\* C26: a Return of a frame entered by a Call with destination d pops the
\* frame, gives the caller's register d the callee's register-0 value, leaves
\* every other caller register as it was, truncates the register stack to
\* the callee's register_start and leaves the caller stopped at the Call, so
\* that the instruction after the Call runs next; a Return of the entry frame
\* stores its register-0 value in slot 0 and empties the call stack.
C26_ReturnFrame == [][C26_Step]_vars

\* a jump of the misc category that carries an instruction pointer
IsJump(w) ==
  /\ SuperCode(w) = SuperCode_Misc
  /\ MiscSubcode(w) = Misc_Jump
  /\ Reason(w) # Reason_Special

\* the index of the instruction fetched after a jump to the target of w
Landing(w) == from_both_operands(w) + 1

C27_Site(bytecode, site) ==
  LET test == bytecode[site.test + 1] IN
  /\ IsJump(test) /\ Reason(test) = Reason_IfFalse
  /\ CASE site.kind = "while" ->
            LET back == bytecode[site.back + 1] IN
            /\ site.condition <= site.test /\ site.test < site.back
            /\ IsJump(back) /\ Reason(back) = Reason_Always
            /\ Landing(test) = site.back + 1
            /\ Landing(back) = site.condition
       [] site.kind = "if" ->
            /\ site.test < site.after
            /\ Landing(test) = site.after
       [] site.kind = "if_else" ->
            LET over == bytecode[site.over + 1] IN
            /\ site.test < site.over /\ site.over < site.after
            /\ IsJump(over) /\ Reason(over) = Reason_Always
            /\ Landing(test) = site.over + 1
            /\ Landing(over) = site.after

Windows ==
  IF call_stack = <<>> THEN Len(register_stack) = 1
  ELSE /\ call_stack[1].register_start >= 1
       /\ \A k \in 1..(Len(call_stack) - 1) :
            call_stack[k + 1].register_start
              = call_stack[k].register_start + call_stack[k].procedure.register_count
       /\ Len(register_stack)
            = Top(VM).register_start + Top(VM).procedure.register_count

\* the instruction this step executes names a register outside the window
OutsideWindow ==
  \E r \in RegisterOperands(Fetched[1]) : r >= Top(VM).procedure.register_count

C28_Step ==
  /\ (Windows /\ last'.result.kind = "Ok") => Windows'
  /\ (Windows /\ SingleStep /\ last'.result.kind = "Ok") => ~OutsideWindow
  /\ (Windows /\ SingleStep /\ last'.result.kind = "Err"
        /\ last'.result.error = "InvalidRegister") => OutsideWindow

\* C28: from new() on, while no call returns an error, the register stack
\* ends where the top frame's window ends, the windows of the frames are
\* contiguous, disjoint, in call order and start at index >= 1, and an empty
\* call stack leaves a register stack of length 1; an instruction's register
\* operand r is accessible exactly when r < register_count of the running
\* frame, and an instruction with another register yields InvalidRegister.
C28_Windows == Windows /\ [][C28_Step]_vars

SameMachine(vm) ==
  /\ vm.call_stack = call_stack
  /\ vm.register_stack = register_stack
  /\ vm.heap = heap

\* C29: limited loops run one after the other without an error leave the
\* machine (call stack with every pc, register stack) as one limited loop
\* with the sum of their counts leaves it; and when they have emptied the
\* call stack, as execution_loop(Unlimited) leaves it, with the same
\* get_result().
C29_SlicesCompose ==
  (last.op = "loop" /\ last.limit.limited /\ last.result.kind = "Ok") =>
    LET since == last.slices.since
        whole == execution_loop_finite(since, last.slices.total, build_profile)
        unlimited == execution_loop_infinite(since, Fuel, build_profile)
    IN /\ whole.status # "Err"
       /\ SameMachine(whole.vm)
       /\ call_stack = <<>> =>
            /\ unlimited.status = "Finished"
            /\ SameMachine(unlimited.vm)
            /\ get_result(unlimited.vm) = get_result(VM)

\* slices of different counts have run a call and its return to the end
C29_Witness ==
  /\ last.op = "loop" /\ last.limit.limited /\ last.result.kind = "Ok"
  /\ last.limit.count > 0
  /\ last.slices.total > MaxCount + last.limit.count
  /\ Len(last.slices.since.call_stack) = 1
  /\ Top(last.slices.since).pc = 0
  /\ Len(Top(last.slices.since).procedure.call_sites) > 0
  /\ call_stack = <<>>
  /\ get_result(VM) # Nil

\* the live handles that refer to a slot
Handles(id) == {h \in 1..Len(temporaries) : temporaries[h] = id}

\* the slots whose use count is zero
FreeSlots(counts) == {id \in 0..(Len(counts) - 1) : counts[id + 1] = 0}

C30_Counts ==
  \A id \in 0..(Len(temp_manager.temps_use_count) - 1) :
    temp_manager.temps_use_count[id + 1] = Cardinality(Handles(id))

C30_Step ==
  LET counts == temp_manager.temps_use_count
      counts_after == temp_manager'.temps_use_count
  IN /\ C30_Counts /\ C30_Counts'
     /\ Len(counts_after) >= Len(counts)
     /\ last'.op = "take_temp" =>
          LET id == last'.result[1] IN
          IF FreeSlots(counts) # {}
          THEN /\ id \in FreeSlots(counts)
               /\ \A other \in FreeSlots(counts) : id <= other
               /\ Len(counts_after) = Len(counts)
          ELSE /\ id = Len(counts)
               /\ Len(counts_after) = Len(counts) + 1

\* C30: in every allocator state reached by take_temp, take_temp_range,
\* clone and drop, the use count of a slot is the number of live handles
\* that refer to it, and the slot list never shrinks; take_temp returns the
\* lowest slot whose use count is zero and appends a slot only when no slot
\* has use count zero.
C30_UseCounts == [][C30_Step]_vars

\* take_temp has reused a freed slot below a slot that two handles share,
\* with another free slot above it
C30_Witness ==
  /\ last.op = "take_temp"
  /\ temp_manager.status = "ok"
  /\ \E id \in 0..(Len(temp_manager.temps_use_count) - 1) :
       /\ id > last.result[1]
       /\ Cardinality(Handles(id)) = 2
  /\ \E id \in FreeSlots(temp_manager.temps_use_count) : id > last.result[1]

====
